---- MODULE Spec2Model ----
(***************************************************************************)
(* json-zod: the resolver fromZodJson (lib/from-json-zod.ts) that turns a  *)
(* JSON description into a Zod schema.  One resolve pass is the call       *)
(* fromZodJson(root) followed by the later forcings of the z.lazy handles  *)
(* that the call (or an earlier forcing) registered.                       *)
(***************************************************************************)
EXTENDS Integers, Sequences, FiniteSets, TLC

\* ------------------------------------------------------------------------
\* Bounds of the model
\* ------------------------------------------------------------------------

\* longest generated `tail` of a leaf Node
MaxTail == 2

\* call-stack depth at which the engine raises RangeError
MaxDepth == 12

\* most calls of compiled functions in a behaviour
MaxCalls == 2

\* ------------------------------------------------------------------------
\* JavaScript values
\* ------------------------------------------------------------------------

Undef == [t |-> "undefined"]

Null == [t |-> "null"]

Bool(b) == [t |-> "boolean", v |-> b]

Num(n) == [t |-> "number", v |-> n]

Str(s) == [t |-> "string", v |-> s]

\* an array: its elements in index order
Arr(items) == [t |-> "array", v |-> items]

\* a plain object: its own properties as <<key, value>> pairs in insertion order
Obj(props) == [t |-> "object", v |-> props]

\* a module namespace object (null prototype): the zod surface
Module(props) == [t |-> "module", v |-> props]

\* a function value
Fn(desc) == [t |-> "function", v |-> desc]

\* a schema instance produced by the validator library
Inst(type, origin) == [t |-> "schema", v |-> [type |-> type, origin |-> origin]]

\* an Error object with its message, kept as the template's parts
Err(parts) == [t |-> "error", v |-> parts]

\* the typeof operator
typeOf(x) ==
  CASE x.t = "undefined" -> "undefined"
    [] x.t = "boolean" -> "boolean"
    [] x.t = "number" -> "number"
    [] x.t = "string" -> "string"
    [] x.t = "function" -> "function"
    [] OTHER -> "object"

\* Array.isArray
isArray(x) == x.t = "array"

\* ToBoolean
truthy(x) ==
  CASE x.t = "undefined" -> FALSE
    [] x.t = "null" -> FALSE
    [] x.t = "boolean" -> x.v
    [] x.t = "number" -> x.v # 0
    [] x.t = "string" -> x.v # ""
    [] OTHER -> TRUE

\* the own keys of an object, in order
ownKeys(o) == [i \in 1..Len(o.v) |-> o.v[i][1]]

hasOwn(o, k) == \E i \in 1..Len(o.v) : o.v[i][1] = k

ownValue(o, k) == o.v[CHOOSE i \in 1..Len(o.v) : o.v[i][1] = k][2]

\* the array-index keys of the model, ascending
IntegerKeys == <<"0", "1", "2">>

\* the own properties of an object in for-in order: array-index keys ascending, then
\* the other keys in creation order
forIn(props) ==
  LET isIndex(k) == \E i \in 1..Len(IntegerKeys) : IntegerKeys[i] = k
      present == SelectSeq(IntegerKeys, LAMBDA k : \E j \in 1..Len(props) : props[j][1] = k)
  IN [i \in 1..Len(present) |->
        <<present[i], props[CHOOSE j \in 1..Len(props) : props[j][1] = present[i]][2]>>]
     \o SelectSeq(props, LAMBDA kv : ~isIndex(kv[1]))

\* result[key] = val on a fresh plain object: the key `__proto__` reaches the setter
\* inherited from Object.prototype (it replaces the prototype when val is an object or
\* null and does nothing otherwise), so no own property is created for it
assign(props, key, val) ==
  IF key = "__proto__" THEN props ELSE Append(props, <<key, val>>)

\* the members every plain object inherits from Object.prototype
ObjectPrototype == {"constructor", "toString", "valueOf", "hasOwnProperty"}

\* ------------------------------------------------------------------------
\* The validator library surface (zod), an external collaborator
\* ------------------------------------------------------------------------

\* a base constructor of the library
ZFn(path) == Fn(<<"z", path>>)

z ==
  Module(<< <<"string", ZFn("string")>>,
            <<"number", ZFn("number")>>,
            <<"object", ZFn("object")>>,
            <<"array", ZFn("array")>>,
            <<"union", ZFn("union")>>,
            <<"literal", ZFn("literal")>>,
            <<"coerce", Module(<< <<"string", ZFn("coerce.string")>>,
                                  <<"number", ZFn("coerce.number")>> >>)>> >>)

\* the class of the instance a base constructor returns
BaseType(path) ==
  CASE path = "coerce.string" -> "string"
    [] path = "coerce.number" -> "number"
    [] OTHER -> path

\* the chainable operations of an instance, by class
ChainMethods(type) ==
  CASE type = "string" -> {"min", "max", "optional", "nullable", "transform"}
    [] type = "number" -> {"min", "max", "optional", "nullable", "transform"}
    [] type = "array" -> {"min", "max", "optional", "nullable", "transform"}
    [] type = "object" -> {"partial", "optional", "nullable", "transform"}
    [] type = "optional" -> {"unwrap", "optional", "nullable", "transform"}
    [] type = "nullable" -> {"unwrap", "optional", "nullable", "transform"}
    [] OTHER -> {"optional", "nullable", "transform"}

\* the members of an instance that are data, not operations
DataMembers == {"def", "type"}

\* the class of the instance a chained operation returns
ChainType(type, name) ==
  CASE name = "optional" -> "optional"
    [] name = "nullable" -> "nullable"
    [] name = "transform" -> "pipe"
    [] name = "unwrap" -> "unknown"
    [] OTHER -> type

\* property read x[k]
getProp(x, k) ==
  CASE x.t = "object" ->
         IF hasOwn(x, k) THEN ownValue(x, k)
         ELSE IF k \in ObjectPrototype THEN Fn(<<"Object.prototype", k>>)
         ELSE Undef
    [] x.t = "module" -> IF hasOwn(x, k) THEN ownValue(x, k) ELSE Undef
    [] x.t = "schema" ->
         IF k \in ChainMethods(x.v.type) THEN Fn(<<"method", k>>)
         ELSE IF k \in DataMembers THEN Obj(<<>>)
         ELSE Undef
    [] OTHER -> Undef

\* the `in` operator on a plain object
hasIn(x, k) == hasOwn(x, k) \/ k \in ObjectPrototype

\* array element read a[i], zero-based
getIndex(a, i) == IF i + 1 <= Len(a.v) THEN a.v[i + 1] ELSE Undef

\* calling a base constructor with a spread argument list
callBase(fn, args) == Inst(BaseType(fn.v[2]), <<"base", fn.v[2], args>>)

\* fn.apply(schema, args) for a chained operation
applyMethod(fn, schema, args) ==
  Inst(ChainType(schema.v.type, fn.v[2]), <<"tail", schema, fn.v[2], args>>)

\* z.lazy(getter): a placeholder instance for the heap cell h
lazyInst(h) == Inst("lazy", <<"lazy", h>>)

\* ------------------------------------------------------------------------
\* Helpers of the resolver
\* ------------------------------------------------------------------------

\* path.split('.') on the method strings of the model
split(path) ==
  CASE path = "" -> <<"">>
    [] path = "coerce.string" -> <<"coerce", "string">>
    [] path = "coerce.number" -> <<"coerce", "number">>
    [] path = "coerce.nope" -> <<"coerce", "nope">>
    [] path = "nope.string" -> <<"nope", "string">>
    [] path = "string.x" -> <<"string", "x">>
    [] OTHER -> <<path>>

RECURSIVE reduceGet(_, _, _)
\* parts.reduce((acc, part) => acc?.[part], obj), from the i-th part on
reduceGet(acc, parts, i) ==
  IF i > Len(parts) THEN acc
  ELSE reduceGet(IF acc.t \in {"undefined", "null"} THEN Undef ELSE getProp(acc, parts[i]),
                 parts, i + 1)

\* mutant of get: only the first segment of the path is followed
getFirstSegment(obj, path) == getProp(obj, split(path)[1])

\* get(obj, path)
get(obj, path) == reduceGet(obj, split(path), 1)

\* ToPropertyKey / template-literal text of a reference id
propKey(x) == IF x.t = "string" THEN x.v ELSE x.t

\* the first capture of the argument-name pattern on `code`, "" when it does not match
argMatch(code) ==
  CASE code = "val => val.toUpperCase()" -> "val"
    [] code = "(x) => x + 1" -> "x"
    [] code = "val => (" -> "val"
    [] OTHER -> ""

\* whether new Function accepts `return (code)(arg)`
compiles(code) == code \in {"val => val.toUpperCase()", "(x) => x + 1", "function (v) { return v }"}

NoError == [t |-> "none"]

DefinitionNotFound(refId) == Err(<<"[json-zod] Definition not found for ref: \"", refId, "\"">>)

CachedUndefined(refId) ==
  Err(<<"[json-zod] Cached definition is unexpectedly undefined for ref: \"", refId, "\"">>)

DefinitionsUndefined(refId) ==
  Err(<<"[json-zod] Definitions are undefined when resolving ref: \"", refId, "\"">>)

\* mutant of FunctionParseFailed: the message leaves out the source text
FunctionParseFailedBare(code) ==
  Err(<<"[json-zod] Failed to parse function code: \"", "\". Error: ", "SyntaxError">>)

FunctionParseFailed(code) ==
  Err(<<"[json-zod] Failed to parse function code: \"", code, "\". Error: ", "SyntaxError">>)

InvalidMethodType(type) == Err(<<"[json-zod] Invalid method type: expected string, got ", type>>)

UnknownMethod(method) == Err(<<"[json-zod] Unknown Zod method: \"z.", method, "\"">>)

\* mutant of UnknownTailMethod: the message leaves out the base method
UnknownTailMethodBare(name, method) ==
  Err(<<"[json-zod] Unknown Zod tail method: \".", name, "()\"">>)

UnknownTailMethod(name, method) ==
  Err(<<"[json-zod] Unknown Zod tail method: \".", name, "()\" on \"z.", method, "\"">>)

\* the engine's stack overflow
RangeError == Err(<<"RangeError: Maximum call stack size exceeded">>)

\* a completed evaluation: the value returned and the state left behind
Ret(val, st) == [val |-> val, st |-> st]

\* an evaluation that threw
Throw(err, st) == [val |-> Undef, st |-> [st EXCEPT !.thrown = err]]

\* one more entry in the pass's trace
Log(st, e) == [st EXCEPT !.log = Append(@, e)]

\* mutant of cacheHas: the cache is never consulted
cacheHasNever(cache, refId) == FALSE

\* definitionCache.has(refId)
cacheHas(cache, refId) == refId \in DOMAIN cache

\* mutant of cacheSet: the handle is returned without being stored
cacheSetDropped(cache, refId, h) == cache

\* mutant of cacheSet: the id is entered with an empty value
cacheSetEmpty(cache, refId, h) ==
  [k \in DOMAIN cache \cup {refId} |-> IF k = refId THEN Undef ELSE cache[k]]

\* definitionCache.set(refId, h)
cacheSet(cache, refId, h) ==
  [k \in DOMAIN cache \cup {refId} |-> IF k = refId THEN h ELSE cache[k]]

\* mutant of definitionMissing: only the absence of the whole table is checked
definitionMissingTableOnly(root, refId) == ~truthy(getProp(root, "definitions"))

\* !root.definitions || !root.definitions[refId]
definitionMissing(root, refId) ==
  \/ ~truthy(getProp(root, "definitions"))
  \/ ~truthy(getProp(getProp(root, "definitions"), refId))

\* mutant of classify: the `_schema` marker is tested before the `_is` markers
classifySchemaFirst(node) ==
  IF typeOf(node) # "object" \/ node.t = "null" THEN "scalar"
  ELSE IF isArray(node) THEN "array"
  ELSE IF hasIn(node, "_schema") /\ getProp(node, "_schema") = Str("json-zod") THEN "json-zod"
  ELSE IF hasIn(node, "_is") /\ getProp(node, "_is") = Str("ref") THEN "ref"
  ELSE IF hasIn(node, "_is") /\ getProp(node, "_is") = Str("function") THEN "function"
  ELSE "record"

\* mutant of classify: an object with a `method` member is a Node, marker or not
classifyByMethod(node) ==
  IF typeOf(node) # "object" \/ node.t = "null" THEN "scalar"
  ELSE IF isArray(node) THEN "array"
  ELSE IF hasIn(node, "_is") /\ getProp(node, "_is") = Str("ref") THEN "ref"
  ELSE IF hasIn(node, "_is") /\ getProp(node, "_is") = Str("function") THEN "function"
  ELSE IF hasIn(node, "_schema") \/ hasIn(node, "method") THEN "json-zod"
  ELSE "record"

\* the branch of parseNode that handles `node`
classify(node) ==
  IF typeOf(node) # "object" \/ node.t = "null" THEN "scalar"
  ELSE IF isArray(node) THEN "array"
  ELSE IF hasIn(node, "_is") /\ getProp(node, "_is") = Str("ref") THEN "ref"
  ELSE IF hasIn(node, "_is") /\ getProp(node, "_is") = Str("function") THEN "function"
  ELSE IF hasIn(node, "_schema") /\ getProp(node, "_schema") = Str("json-zod") THEN "json-zod"
  ELSE "record"

\* mutant of nextSchema: the returned instance is dropped, the chain stays on the old one
nextSchemaKept(schema, returned) == schema

\* the assignment `schema = tailMethodFn.apply(schema, parsedTailParams)`
nextSchema(schema, returned) == returned

\* mutant of noParams: absent params are passed on as one undefined argument
noParamsUndefined == Arr(<<Undef>>)

\* the `[]` that stands for absent params (`zodNode.params ? ... : []`, and the same for
\* a tail entry)
noParams == Arr(<<>>)

\* ------------------------------------------------------------------------
\* parseNode: the recursive resolver
\* ------------------------------------------------------------------------

RECURSIVE parseNode(_, _, _, _)

\* mutant of scalarBranch: a scalar is returned as its text
scalarBranchText(node, st) ==
  Ret(IF node.t \in {"number", "boolean", "null"} THEN Str(node.t) ELSE node, st)

\* the scalar branch: `return node`
scalarBranch(node, st) == Ret(node, st)

\* the getter handed to z.lazy for refId
thunk(root, refId, st, depth) ==
  IF ~truthy(getProp(root, "definitions")) THEN Throw(DefinitionsUndefined(refId), st)
  ELSE LET definition == getProp(getProp(root, "definitions"), refId)
       IN IF ~truthy(definition) THEN Throw(DefinitionNotFound(refId), st)
          ELSE parseNode(root, definition, Log(st, [ev |-> "body", id |-> refId]), depth + 1)

\* mutant of refBranch: the definition is resolved on the spot, not behind z.lazy
refBranchEager(root, node, st, depth) ==
  LET refId == propKey(getProp(node, "id"))
  IN IF definitionMissing(root, refId) THEN Throw(DefinitionNotFound(refId), st)
     ELSE thunk(root, refId, st, depth)

\* A. the reference branch (`_is: "ref"`)
refBranch(root, node, st, depth) ==
  LET refId == propKey(getProp(node, "id"))
  IN IF definitionMissing(root, refId) THEN Throw(DefinitionNotFound(refId), st)
     ELSE IF cacheHas(st.cache, refId)
     THEN LET cached == st.cache[refId]
          IN IF cached = Undef THEN Throw(CachedUndefined(refId), st)
             ELSE Ret(cached, Log(st, [ev |-> "hit", id |-> refId, schema |-> cached]))
     ELSE LET h == Len(st.lazies) + 1
              lazySchema == lazyInst(h)
              st1 == [st EXCEPT !.lazies = Append(@, [owner |-> st.pass, refId |-> refId,
                                                      state |-> "unforced", inner |-> Undef])]
              st2 == [st1 EXCEPT !.cache = cacheSet(@, refId, lazySchema)]
          IN Ret(lazySchema, Log(st2, [ev |-> "lazy", id |-> refId, schema |-> lazySchema]))

\* mutant of functionBranch: the catch block swallows the compile failure
functionBranchSwallow(node, st) ==
  LET code == propKey(getProp(node, "code"))
      argName == IF argMatch(code) = "" THEN "data" ELSE argMatch(code)
  IN IF compiles(code)
     THEN Ret(Fn(<<"compiled", argName, code>>), Log(st, [ev |-> "compile", code |-> code, fn |-> Fn(<<"compiled", argName, code>>)]))
     ELSE Ret(Undef, st)

\* B. the function branch (`_is: "function"`)
functionBranch(node, st) ==
  LET code == propKey(getProp(node, "code"))
      argName == IF argMatch(code) = "" THEN "data" ELSE argMatch(code)
  IN IF compiles(code)
     THEN Ret(Fn(<<"compiled", argName, code>>), Log(st, [ev |-> "compile", code |-> code, fn |-> Fn(<<"compiled", argName, code>>)]))
     ELSE Throw(FunctionParseFailed(code), st)

RECURSIVE parseItems(_, _, _, _, _, _)
\* mutant of parseItems: each resolved element is put in front of the earlier ones
parseItemsReversed(root, items, i, acc, st, depth) ==
  IF i > Len(items) THEN Ret(Arr(acc), st)
  ELSE LET r == parseNode(root, items[i], st, depth + 1)
       IN IF r.st.thrown # NoError THEN r
          ELSE parseItems(root, items, i + 1, <<r.val>> \o acc, r.st, depth)

\* node.map(item => parseNode(item)), from the i-th item on
parseItems(root, items, i, acc, st, depth) ==
  IF i > Len(items) THEN Ret(Arr(acc), st)
  ELSE LET r == parseNode(root, items[i], st, depth + 1)
       IN IF r.st.thrown # NoError THEN r
          ELSE parseItems(root, items, i + 1, Append(acc, r.val), r.st, depth)

RECURSIVE substitute(_, _, _)
\* the value v with every occurrence of the object `old` replaced by `new`
substitute(v, old, new) ==
  IF v = old THEN new
  ELSE IF v.t = "array" THEN Arr([i \in 1..Len(v.v) |-> substitute(v.v[i], old, new)])
  ELSE IF v.t = "object"
  THEN Obj([i \in 1..Len(v.v) |-> <<v.v[i][1], substitute(v.v[i][2], old, new)>>])
  ELSE v

RECURSIVE parseProps(_, _, _, _, _, _)
\* mutant of parseProps: the resolved values are stored into the record being read
parsePropsInPlace(root, props, i, acc, st, depth) ==
  IF i > Len(props)
  THEN Ret(Obj(acc), [st EXCEPT !.input = substitute(@, Obj(props), Obj(acc))])
  ELSE LET r == parseNode(root, props[i][2], st, depth + 1)
       IN IF r.st.thrown # NoError THEN r
          ELSE parseProps(root, props, i + 1, assign(acc, props[i][1], r.val), r.st, depth)

\* the for-in loop over the own keys of a plain record, from the i-th key on
parseProps(root, props, i, acc, st, depth) ==
  IF i > Len(props) THEN Ret(Obj(acc), st)
  ELSE LET r == parseNode(root, props[i][2], st, depth + 1)
       IN IF r.st.thrown # NoError THEN r
          ELSE parseProps(root, props, i + 1, assign(acc, props[i][1], r.val), r.st, depth)

RECURSIVE parseTail(_, _, _, _, _, _, _)
\* mutant of parseTail: the entry's params are resolved before the operation is looked up
parseTailParamsFirst(root, method, tail, i, schema, st, depth) ==
  IF i > Len(tail) THEN Ret(schema, st)
  ELSE LET tailMethodName == propKey(getIndex(tail[i], 0))
           tailMethodParams == getIndex(tail[i], 1)
           tailMethodFn == getProp(schema, tailMethodName)
           r == IF truthy(tailMethodParams)
                THEN parseNode(root, tailMethodParams, st, depth + 1)
                ELSE Ret(noParams, st)
       IN IF r.st.thrown # NoError THEN r
          ELSE LET st1 == Log(r.st, [ev |-> "tailLookup", on |-> schema, name |-> tailMethodName])
               IN IF typeOf(tailMethodFn) # "function"
                  THEN Throw(UnknownTailMethod(tailMethodName, method), st1)
                  ELSE LET returned == applyMethod(tailMethodFn, schema, r.val.v)
                           st2 == Log(st1, [ev |-> "tailCall", on |-> schema,
                                            name |-> tailMethodName, args |-> r.val.v,
                                            returned |-> returned])
                       IN parseTail(root, method, tail, i + 1,
                                    nextSchema(schema, returned), st2, depth)

\* the loop over zodNode.tail, from the i-th entry on, with the current instance
parseTail(root, method, tail, i, schema, st, depth) ==
  IF i > Len(tail) THEN Ret(schema, st)
  ELSE LET tailMethodName == propKey(getIndex(tail[i], 0))
           tailMethodParams == getIndex(tail[i], 1)
           tailMethodFn == getProp(schema, tailMethodName)
           st1 == Log(st, [ev |-> "tailLookup", on |-> schema, name |-> tailMethodName])
       IN IF typeOf(tailMethodFn) # "function"
          THEN Throw(UnknownTailMethod(tailMethodName, method), st1)
          ELSE LET r == IF truthy(tailMethodParams)
                        THEN parseNode(root, tailMethodParams, st1, depth + 1)
                        ELSE Ret(noParams, st1)
               IN IF r.st.thrown # NoError THEN r
                  ELSE LET returned == applyMethod(tailMethodFn, schema, r.val.v)
                           st2 == Log(r.st, [ev |-> "tailCall", on |-> schema,
                                             name |-> tailMethodName, args |-> r.val.v,
                                             returned |-> returned])
                       IN parseTail(root, method, tail, i + 1,
                                    nextSchema(schema, returned), st2, depth)

\* mutant of nodeBranch: the params are resolved before the method is looked up
nodeBranchParamsFirst(root, node, st, depth) ==
  LET method == getProp(node, "method")
  IN IF typeOf(method) # "string" THEN Throw(InvalidMethodType(typeOf(method)), st)
     ELSE LET params == IF truthy(getProp(node, "params"))
                        THEN parseNode(root, getProp(node, "params"), st, depth + 1)
                        ELSE Ret(noParams, st)
          IN IF params.st.thrown # NoError THEN params
             ELSE LET methodFn == get(z, method.v)
                      st1 == Log(params.st, [ev |-> "lookup", method |-> method.v])
                  IN IF typeOf(methodFn) # "function" THEN Throw(UnknownMethod(method.v), st1)
                     ELSE LET schema == callBase(methodFn, params.val.v)
                              st2 == Log(st1, [ev |-> "construct", method |-> method.v,
                                               args |-> params.val.v, returned |-> schema])
                          IN IF isArray(getProp(node, "tail"))
                             THEN parseTail(root, method.v, getProp(node, "tail").v, 1,
                                            schema, st2, depth)
                             ELSE Ret(schema, st2)

\* C. the ZodJson branch (`_schema: "json-zod"`)
nodeBranch(root, node, st, depth) ==
  LET method == getProp(node, "method")
  IN IF typeOf(method) # "string" THEN Throw(InvalidMethodType(typeOf(method)), st)
     ELSE LET methodFn == get(z, method.v)
              st1 == Log(st, [ev |-> "lookup", method |-> method.v])
          IN IF typeOf(methodFn) # "function" THEN Throw(UnknownMethod(method.v), st1)
             ELSE LET params == IF truthy(getProp(node, "params"))
                                THEN parseNode(root, getProp(node, "params"), st1, depth + 1)
                                ELSE Ret(noParams, st1)
                  IN IF params.st.thrown # NoError THEN params
                     ELSE LET schema == callBase(methodFn, params.val.v)
                              st2 == Log(params.st, [ev |-> "construct", method |-> method.v,
                                                     args |-> params.val.v, returned |-> schema])
                          IN IF isArray(getProp(node, "tail"))
                             THEN parseTail(root, method.v, getProp(node, "tail").v, 1,
                                            schema, st2, depth)
                             ELSE Ret(schema, st2)

parseNode(root, node, st0, depth) ==
  LET st == [st0 EXCEPT !.steps = @ + 1]
      kind == classify(node)
  IN IF depth > MaxDepth THEN Throw(RangeError, st)
     ELSE CASE kind = "scalar" -> scalarBranch(node, st)
            [] kind = "array" -> parseItems(root, node.v, 1, <<>>, st, depth)
            [] kind = "ref" -> refBranch(root, node, st, depth)
            [] kind = "function" -> functionBranch(node, st)
            [] kind = "json-zod" -> nodeBranch(root, node, st, depth)
            [] OTHER -> parseProps(root, forIn(node.v), 1, <<>>, st, depth)

\* ------------------------------------------------------------------------
\* The description documents the passes are run on
\* ------------------------------------------------------------------------

\* a ZodJsonRef
Ref(id) == Obj(<< <<"_is", Str("ref")>>, <<"id", Str(id)>> >>)

\* a ZodJsonFunctionSpec
Func(code) == Obj(<< <<"_is", Str("function")>>, <<"code", Str(code)>> >>)

\* the properties of an object that are present (not Undef)
Present(props) == SelectSeq(props, LAMBDA kv : kv[2] # Undef)

\* a ZodJson node; params or tail given as Undef are absent
Node(method, params, tail) ==
  Obj(Present(<< <<"_schema", Str("json-zod")>>, <<"method", method>>,
                 <<"params", params>>, <<"tail", tail>> >>))

\* a node with neither params nor tail
Leaf(method) == Node(Str(method), Undef, Undef)

\* a ZodJsonTailItem: the array [name, params] or [name]
Item(name, params) == Arr(IF params = Undef THEN <<Str(name)>> ELSE <<Str(name), params>>)

\* a ZodJsonRoot; definitions given as Undef are absent
Root(definitions, schema) ==
  Obj(Present(<< <<"definitions", definitions>>, <<"schema", schema>> >>))

\* all sequences over S of length at most n
SeqsUpTo(S, n) == UNION {[1..k -> S] : k \in 0..n}

TailItems ==
  { Item("min", Arr(<<Num(3)>>)), Item("max", Arr(<<Num(10)>>)), Item("optional", Undef),
    Item("unknownTailMethod", Undef), Item("def", Undef) }

LeafMethods ==
  { "string", "number", "coerce.string", "coerce", "unknownMethod", "coerce.nope",
    "nope.string", "string.x", "" }

LeafParams == { Undef, Arr(<<Ref("A")>>), Arr(<<Ref("Missing")>>) }

LeafTails == {Undef} \cup {Arr(t) : t \in SeqsUpTo(TailItems, MaxTail)}

\* the generated method-call nodes without nested nodes
LeafNodes == {Node(Str(m), ps, t) : m \in LeafMethods, ps \in LeafParams, t \in LeafTails}

\* the recursive Category definition of the test suite
DefsCategory ==
  Obj(<< <<"Category",
           Node(Str("object"),
                Arr(<< Obj(<< <<"name", Leaf("string")>>,
                              <<"subcategories",
                                Node(Str("array"), Arr(<<Ref("Category")>>), Undef)>> >>) >>),
                Undef)>> >>)

\* three mutually-referencing definitions A -> B -> C -> A
DefsCycle ==
  Obj(<< <<"A", Node(Str("object"), Arr(<<Obj(<< <<"b", Ref("B")>> >>)>>), Undef)>>,
         <<"B", Node(Str("object"), Arr(<<Obj(<< <<"c", Ref("C")>> >>)>>), Undef)>>,
         <<"C", Node(Str("object"), Arr(<<Obj(<< <<"a", Ref("A")>>, <<"self", Ref("C")>> >>)>>),
                     Undef)>> >>)

DefsA == Obj(<< <<"A", Leaf("string")>> >>)

\* definitions whose bodies carry a defect
DefsBad ==
  Obj(<< <<"A", Leaf("unknownMethod")>>,
         <<"B", Node(Str("object"), Arr(<<Obj(<< <<"x", Ref("Missing")>> >>)>>), Undef)>>,
         <<"C", Node(Str("string"), Undef,
                     Arr(<<Item("min", Arr(<<Num(3)>>)), Item("unknownTailMethod", Undef)>>))>>,
         <<"F", Node(Str("string"), Undef,
                     Arr(<<Item("transform", Arr(<<Func("val => (")>>))>>))>> >>)

\* a sound definition beside a defective one that nothing references
DefsUnused == Obj(<< <<"A", Leaf("string")>>, <<"Unused", Leaf("unknownMethod")>> >>)

DefsFalsy == Obj(<< <<"A", Null>>, <<"B", Leaf("number")>> >>)

DefinitionsChoices ==
  { Undef, Obj(<<>>), DefsA, DefsCategory, DefsCycle, DefsBad, DefsUnused, DefsFalsy }

RefIds == {"A", "B", "C", "F", "Category", "Missing", "toString"}

\* the example 4.1 of the design document: the shape entries carry no `_schema` marker
DesignExample ==
  Node(Str("object"),
       Arr(<<Obj(<< <<"name", Obj(<< <<"method", Str("string")>>,
                                     <<"tail", Arr(<<Item("optional", Undef)>>)>> >>)>>,
                    <<"age", Obj(<< <<"method", Str("number")>>,
                                    <<"tail", Arr(<<Item("min", Arr(<<Num(0)>>))>>)>> >>)>> >>)>>),
       Arr(<<Item("partial", Undef)>>))

\* the hand-written schemas: references, composites, mixed discriminators
SchemaChoices ==
  {Ref(id) : id \in RefIds}
  \cup
  { Node(Str("object"), Arr(<<Obj(<< <<"a", Ref("A")>>, <<"b", Ref("A")>> >>)>>), Undef),
    Node(Str("object"), Arr(<<Obj(<< <<"a", Ref("A")>>, <<"b", Ref("B")>> >>)>>),
         Arr(<<Item("partial", Undef)>>)),
    Node(Str("union"), Arr(<<Arr(<<Leaf("string"), Leaf("number")>>)>>), Undef),
    Node(Str("array"), Arr(<<Ref("Category")>>), Arr(<<Item("min", Arr(<<Num(1)>>))>>)),
    Node(Str("literal"), Arr(<<Str("hello")>>), Undef),
    Node(Str("string"), Undef, Arr(<<Item("transform", Arr(<<Func("val => val.toUpperCase()")>>))>>)),
    Node(Str("string"), Undef, Arr(<<Item("transform", Arr(<<Func("val => (")>>))>>)),
    Node(Str("unknownMethod"), Arr(<<Leaf("string")>>), Undef),
    Node(Num(5), Undef, Undef),
    Node(Undef, Undef, Undef),
    Obj(<< <<"_is", Str("ref")>>, <<"id", Str("A")>>, <<"_schema", Str("json-zod")>>,
           <<"method", Str("string")>> >>),
    Obj(<< <<"_schema", Str("json-zod")>>, <<"method", Str("string")>>,
           <<"_is", Str("function")>>, <<"code", Str("(x) => x + 1")>> >>),
    Obj(<< <<"_is", Str("other")>>, <<"x", Leaf("string")>>, <<"y", Ref("A")>> >>),
    Obj(<< <<"_schema", Str("other")>>, <<"method", Str("unknownMethod")>>, <<"n", Num(1)>> >>),
    Obj(<< <<"name", Leaf("string")>>, <<"list", Arr(<<Num(1), Leaf("number"), Null>>)>> >>),
    Obj(<<>>),
    Node(Str("object"),
         Arr(<<Obj(<< <<"__proto__", Leaf("string")>>, <<"a", Leaf("number")>> >>)>>), Undef),
    Node(Str("object"),
         Arr(<<Obj(<< <<"b", Leaf("string")>>, <<"1", Ref("A")>>, <<"0", Num(7)>> >>)>>), Undef),
    Node(Str("string"),
         Arr(<<Str(""), Num(0), Bool(FALSE), Null,
               Arr(<<Num(1), Obj(<< <<"k", Str("v")>>, <<"n", Null>> >>)>>)>>),
         Arr(<<Item("min", Arr(<<Num(0), Arr(<<Null, Bool(TRUE)>>)>>))>>)),
    Node(Str("literal"), Arr(<<Func("val => (")>>), Arr(<<Item("optional", Undef)>>)),
    Node(Str("string"), Undef,
         Arr(<<Item("transform", Arr(<<Func("(x) => x + 1")>>)),
               Item("transform", Arr(<<Func("val => (")>>)),
               Item("optional", Undef)>>)),
    DesignExample,
    Node(Str("string"), Undef, Str("optional")),
    Node(Str("literal"), Arr(<<Str("hello")>>), Obj(<< <<"0", Item("optional", Undef)>> >>)),
    Obj(<< <<"_is", Str("other")>>, <<"_schema", Str("zod")>>, <<"method", Str("unknownMethod")>>,
           <<"x", Node(Str("number"), Undef, Num(0))>> >>),
    Obj(<< <<"_is", Null>>, <<"_schema", Bool(TRUE)>>, <<"id", Str("Missing")>>,
           <<"code", Str("val => (")>>, <<"y", Ref("A")>> >>),
    Func("function (v) { return v }"),
    Func("val => ("),
    Arr(<<Leaf("string"), Ref("A"), Str("x"), Bool(TRUE)>>),
    Num(5),
    Null }

\* the documents of the model
Documents ==
  {Root(d, n) : d \in {Undef, DefsA}, n \in LeafNodes}
  \cup {Root(d, n) : d \in DefinitionsChoices, n \in SchemaChoices}

\* ------------------------------------------------------------------------
\* State
\* ------------------------------------------------------------------------

\* the resolve passes
Passes == {1}

VARIABLES
  root,            \* root[p]: the document handed to pass p (the caller's data)
  status,          \* status[p]: "idle", "returned" or "threw" for the call fromZodJson(root[p])
  result,          \* result[p]: what the call returned, or the error it threw
  definitionCache, \* definitionCache[p]: the Map of pass p, refId -> cached schema
  lazySchemas,     \* the z.lazy handles created so far, by heap cell
  log,             \* log[p]: the lookups, invocations and registrations of pass p, in order
  walk,            \* walk[p]: the subtree the latest walk of pass p started from, and its steps
  invocations,     \* the invocations of compiled functions so far, in order
  converted        \* converted[p]: the outcome of toZodJson on the validator of pass p

vars == <<root, status, result, definitionCache, lazySchemas, log, walk, invocations, converted>>

\* the empty Map
EmptyCache == [k \in {} |-> Undef]

Init ==
  /\ root \in [Passes -> Documents]
  /\ status = [p \in Passes |-> "idle"]
  /\ result = [p \in Passes |-> Undef]
  /\ definitionCache = [p \in Passes |-> EmptyCache]
  /\ lazySchemas = <<>>
  /\ log = [p \in Passes |-> <<>>]
  /\ walk = [p \in Passes |-> [node |-> Undef, steps |-> 0]]
  /\ invocations = <<>>
  /\ converted = [p \in Passes |-> Undef]

\* mutant of Enter: every walk starts from the Map of the first pass
EnterShared(p, entry) ==
  [pass |-> p, input |-> root[p], cache |-> definitionCache[1], lazies |-> lazySchemas,
   log |-> Append(log[p], entry), steps |-> 0, thrown |-> NoError]

\* the resolver state at the start of a walk of pass p: the caller's document, the Map of
\* the pass, the handles of the heap, the trace
Enter(p, entry) ==
  [pass |-> p, input |-> root[p], cache |-> definitionCache[p], lazies |-> lazySchemas,
   log |-> Append(log[p], entry), steps |-> 0, thrown |-> NoError]

\* mutant of FromZodJson: the whole `definitions` table is resolved before `schema`
FromZodJsonAllDefinitions(p) ==
  /\ status[p] = "idle"
  /\ LET schema == getProp(root[p], "schema")
         all == parseNode(root[p], getProp(root[p], "definitions"), Enter(p, [ev |-> "call"]), 1)
         r == IF all.st.thrown # NoError THEN all ELSE parseNode(root[p], schema, all.st, 1)
     IN /\ status' = [status EXCEPT ![p] = IF r.st.thrown = NoError THEN "returned" ELSE "threw"]
        /\ result' = [result EXCEPT ![p] = IF r.st.thrown = NoError THEN r.val ELSE r.st.thrown]
        /\ definitionCache' = [definitionCache EXCEPT ![p] = r.st.cache]
        /\ lazySchemas' = r.st.lazies
        /\ log' = [log EXCEPT ![p] = Append(r.st.log, [ev |-> "end"])]
        /\ walk' = [walk EXCEPT ![p] = [node |-> schema, steps |-> r.st.steps]]
        /\ root' = [root EXCEPT ![p] = r.st.input]
  /\ UNCHANGED <<invocations, converted>>

\* the call fromZodJson(root[p])
FromZodJson(p) ==
  /\ status[p] = "idle"
  /\ LET schema == getProp(root[p], "schema")
         r == parseNode(root[p], schema, Enter(p, [ev |-> "call"]), 1)
     IN /\ status' = [status EXCEPT ![p] = IF r.st.thrown = NoError THEN "returned" ELSE "threw"]
        /\ result' = [result EXCEPT ![p] = IF r.st.thrown = NoError THEN r.val ELSE r.st.thrown]
        /\ definitionCache' = [definitionCache EXCEPT ![p] = r.st.cache]
        /\ lazySchemas' = r.st.lazies
        /\ log' = [log EXCEPT ![p] = Append(r.st.log, [ev |-> "end"])]
        /\ walk' = [walk EXCEPT ![p] = [node |-> schema, steps |-> r.st.steps]]
        /\ root' = [root EXCEPT ![p] = r.st.input]
  /\ UNCHANGED <<invocations, converted>>

\* the first use of the lazy handle h.  The library runs the getter of a handle once, on
\* its first use, and keeps the outcome; a handle is used only through the validator that
\* fromZodJson returned.
Force(h) ==
  /\ h \in 1..Len(lazySchemas)
  /\ lazySchemas[h].state = "unforced"
  /\ status[lazySchemas[h].owner] = "returned"
  /\ LET p == lazySchemas[h].owner
         refId == lazySchemas[h].refId
         r == thunk(root[p], refId, Enter(p, [ev |-> "thunk", id |-> refId, h |-> h]), 1)
         ok == r.st.thrown = NoError
     IN /\ lazySchemas' = [r.st.lazies EXCEPT ![h].state = IF ok THEN "forced" ELSE "failed",
                                             ![h].inner = IF ok THEN r.val ELSE r.st.thrown]
        /\ definitionCache' = [definitionCache EXCEPT ![p] = r.st.cache]
        /\ log' = [log EXCEPT ![p] = Append(r.st.log, [ev |-> "end"])]
        /\ walk' = [walk EXCEPT ![p] =
                      [node |-> getProp(getProp(root[p], "definitions"), refId),
                       steps |-> r.st.steps]]
        /\ root' = [root EXCEPT ![p] = r.st.input]
  /\ UNCHANGED <<status, result, invocations, converted>>

\* the value f(passed) of the function f that `code` evaluates to
Returned(code, passed) == [t |-> "returned", v |-> <<code, passed>>]

\* mutant of forwarded: the whole runtime argument list is passed on
forwardedAll(fn, args) == args

\* the arguments the body `return (code)(argName)` passes on: the value of the one formal
\* parameter argName, which is the first runtime argument (undefined when there is none)
forwarded(fn, args) == <<IF Len(args) >= 1 THEN args[1] ELSE Undef>>

\* one call of a compiled function with the runtime arguments args: the body evaluates
\* `code` and calls the result
invoke(fn, args) ==
  [fn |-> fn, args |-> args, evaluated |-> fn.v[3], passed |-> forwarded(fn, args),
   returned |-> Returned(fn.v[3], forwarded(fn, args))]

\* the runtime argument lists a caller (the library's transform, or user code) supplies
RuntimeArgs ==
  { <<>>, <<Str("abc")>>, <<Str("abc"), Obj(<< <<"issues", Arr(<<>>)>> >>)>>,
    <<Num(1), Num(2), Num(3)>> }

\* a use of a callable that pass p compiled
Invoke(p) ==
  /\ status[p] = "returned"
  /\ Len(invocations) < MaxCalls
  /\ \E i \in {j \in 1..Len(log[p]) : log[p][j].ev = "compile"}, args \in RuntimeArgs :
        invocations' = Append(invocations, invoke(log[p][i].fn, args))
  /\ UNCHANGED <<root, status, result, definitionCache, lazySchemas, log, walk, converted>>

\* ------------------------------------------------------------------------
\* toZodJson: from a schema instance back to a description
\* ------------------------------------------------------------------------

\* the toZodJson of from-json-zod.ts: a placeholder that always throws
toZodJsonPlaceholder(schema) == Err(<<"[json-zod] toZodJson not implemented">>)

\* schema._def.typeName: the class name under zod 3 (`named`); the instances of 'zod/v4'
\* have no such member
typeName(schema, named) ==
  IF ~named THEN Undef
  ELSE Str(CASE schema.v.type = "string" -> "ZodString"
             [] schema.v.type = "number" -> "ZodNumber"
             [] schema.v.type = "array" -> "ZodArray"
             [] schema.v.type = "object" -> "ZodObject"
             [] schema.v.type = "optional" -> "ZodOptional"
             [] schema.v.type = "nullable" -> "ZodNullable"
             [] schema.v.type = "union" -> "ZodUnion"
             [] schema.v.type = "literal" -> "ZodLiteral"
             [] schema.v.type = "pipe" -> "ZodEffects"
             [] schema.v.type = "lazy" -> "ZodLazy"
             [] OTHER -> "ZodUnknown")

UnsupportedType(name) ==
  Err(<<"[json-zod] toZodJson: Unsupported Zod type: ", propKey(name)>>)

\* reading `_def` of a value that is not a schema instance
TypeError == Err(<<"TypeError: Cannot read properties of undefined">>)

RECURSIVE defArgs(_)
\* the arguments the base constructor of an instance was given (what _def.type and
\* _def.shape() are read from)
defArgs(schema) ==
  IF schema.v.origin[1] = "tail" THEN defArgs(schema.v.origin[2]) ELSE schema.v.origin[3]

\* { ...obj, [key]: val }
withProp(obj, key, val) ==
  IF hasOwn(obj, key)
  THEN Obj([i \in 1..Len(obj.v) |-> IF obj.v[i][1] = key THEN <<key, val>> ELSE obj.v[i]])
  ELSE Obj(Append(obj.v, <<key, val>>))

RECURSIVE convertSchema(_, _)
RECURSIVE convertShape(_, _, _, _)
\* the loop over Object.entries(objectDef.shape()), from the i-th entry on; an Error when
\* an entry cannot be converted
convertShape(entries, i, shape, named) ==
  IF i > Len(entries) THEN Obj(shape)
  ELSE LET c == convertSchema(entries[i][2], named)
       IN IF c.t = "error" THEN c
          ELSE convertShape(entries, i + 1, Append(shape, <<entries[i][1], c>>), named)

\* convertSchema of to-json-zod.ts: the ZodJson of an instance, or the Error thrown
convertSchema(schema, named) ==
  IF schema.t # "schema" THEN TypeError
  ELSE LET name == typeName(schema, named)
       IN CASE name = Str("ZodString") -> Leaf("string")
            [] name = Str("ZodNumber") -> Leaf("number")
            [] name = Str("ZodBoolean") -> Leaf("boolean")
            [] name = Str("ZodArray") ->
                 LET elementSchema == convertSchema(getIndex(Arr(defArgs(schema)), 0), named)
                 IN IF elementSchema.t = "error" THEN elementSchema
                    ELSE Node(Str("array"), Arr(<<elementSchema>>), Undef)
            [] name = Str("ZodObject") ->
                 LET given == getIndex(Arr(defArgs(schema)), 0)
                     shape == convertShape(IF given.t = "object" THEN forIn(given.v) ELSE <<>>,
                                           1, <<>>, named)
                 IN IF shape.t = "error" THEN shape
                    ELSE Node(Str("object"), Arr(<<shape>>), Undef)
            [] name = Str("ZodOptional") ->
                 LET innerSchema == convertSchema(schema.v.origin[2], named)
                 IN IF innerSchema.t = "error" THEN innerSchema
                    ELSE withProp(innerSchema, "tail",
                                  Arr((IF truthy(getProp(innerSchema, "tail"))
                                       THEN getProp(innerSchema, "tail").v ELSE <<>>)
                                      \o <<Item("optional", Undef)>>))
            [] OTHER -> UnsupportedType(name)

\* the toZodJson of to-json-zod.ts
toZodJson(schema, named) ==
  LET rootSchema == convertSchema(schema, named)
  IN IF rootSchema.t = "error" THEN rootSchema ELSE Root(Undef, rootSchema)

\* the two modules that export a toZodJson
Implementations == {"from-json-zod", "to-json-zod"}

\* a call of toZodJson on the validator that pass p returned
ToZodJson(p) ==
  /\ status[p] = "returned"
  /\ result[p].t = "schema"
  /\ converted[p] = Undef
  /\ \E impl \in Implementations, named \in BOOLEAN :
        converted' = [converted EXCEPT ![p] =
                        [impl |-> impl,
                         out |-> IF impl = "from-json-zod" THEN toZodJsonPlaceholder(result[p])
                                 ELSE toZodJson(result[p], named)]]
  /\ UNCHANGED <<root, status, result, definitionCache, lazySchemas, log, walk, invocations>>

Next ==
  \/ \E p \in Passes : FromZodJson(p)
  \/ \E h \in 1..Len(lazySchemas) : Force(h)
  \/ \E p \in Passes : Invoke(p)
  \/ \E p \in Passes : ToZodJson(p)

Spec == Init /\ [][Next]_vars

\* ------------------------------------------------------------------------
\* Two calls of fromZodJson in one program
\* ------------------------------------------------------------------------

RECURSIVE jsonRoundTrip(_)
\* JSON.parse(JSON.stringify(v)): properties holding undefined or a function are left
\* out, such array elements become null, keys are written in enumeration order
jsonRoundTrip(v) ==
  CASE v.t = "array" ->
         Arr([i \in 1..Len(v.v) |->
                IF v.v[i].t \in {"undefined", "function"} THEN Null ELSE jsonRoundTrip(v.v[i])])
    [] v.t = "object" ->
         LET kept == SelectSeq(forIn(v.v), LAMBDA kv : kv[2].t \notin {"undefined", "function"})
         IN Obj([i \in 1..Len(kept) |-> <<kept[i][1], jsonRoundTrip(kept[i][2])>>])
    [] OTHER -> v

PassesTwo == {1, 2}

\* a Node written with its optional fields present and undefined
NodeUndefinedFields ==
  Obj(<< <<"_schema", Str("json-zod")>>, <<"method", Str("array")>>,
         <<"params", Arr(<<Ref("A")>>)>>, <<"tail", Undef>> >>)

SchemasTwo ==
  { Ref("A"),
    Node(Str("object"), Arr(<<Obj(<< <<"a", Ref("A")>>, <<"b", Ref("B")>> >>)>>),
         Arr(<<Item("partial", Undef)>>)),
    Node(Str("object"), Arr(<<Obj(<< <<"1", Ref("C")>>, <<"a", Ref("A")>>, <<"0", Ref("A")>> >>)>>),
         Undef),
    NodeUndefinedFields }

DefinitionsTwo == {DefsCycle, DefsBad, DefsA}

DocumentsTwo == {Root(d, n) : d \in DefinitionsTwo, n \in SchemasTwo}

\* the second call is handed any document, or the first document after a round trip
\* through its JSON text
InitTwo ==
  /\ \E d1 \in DocumentsTwo :
        \E d2 \in DocumentsTwo \cup {jsonRoundTrip(d1)} : root = [p \in PassesTwo |-> IF p = 1 THEN d1 ELSE d2]
  /\ status = [p \in PassesTwo |-> "idle"]
  /\ result = [p \in PassesTwo |-> Undef]
  /\ definitionCache = [p \in PassesTwo |-> EmptyCache]
  /\ lazySchemas = <<>>
  /\ log = [p \in PassesTwo |-> <<>>]
  /\ walk = [p \in PassesTwo |-> [node |-> Undef, steps |-> 0]]
  /\ invocations = <<>>
  /\ converted = [p \in PassesTwo |-> Undef]

NextTwo ==
  \/ \E p \in PassesTwo : FromZodJson(p)
  \/ \E h \in 1..Len(lazySchemas) : Force(h)

SpecTwo == InitTwo /\ [][NextTwo]_vars

\* ------------------------------------------------------------------------
\* Vocabulary of the properties
\* ------------------------------------------------------------------------

\* the own property k of a description object, Undef when it has none
Own(v, k) == IF v.t = "object" /\ hasOwn(v, k) THEN ownValue(v, k) ELSE Undef

\* the entry point of pass p
SchemaOf(p) == Own(root[p], "schema")

\* the definitions table of a document, Undef when it has none
DefsOf(doc) == Own(doc, "definitions")

\* the six shapes of the description language, in the order of the dispatch rule
Shape(v) ==
  IF v.t \in {"undefined", "null", "boolean", "number", "string", "function"} THEN "scalar"
  ELSE IF v.t = "array" THEN "sequence"
  ELSE IF Own(v, "_is") = Str("ref") THEN "reference"
  ELSE IF Own(v, "_is") = Str("function") THEN "function"
  ELSE IF Own(v, "_schema") = Str("json-zod") THEN "node"
  ELSE "mapping"

\* the dotted paths that name a base constructor of the library
BasePaths ==
  {"string", "number", "object", "array", "union", "literal", "coerce.string", "coerce.number"}

\* the lookup definitions[id] yields a definition: an own entry with a usable value, or a
\* member that every object inherits
Resolvable(doc, id) ==
  /\ DefsOf(doc) # Undef
  /\ \/ hasOwn(DefsOf(doc), id) /\ Own(DefsOf(doc), id) \notin {Null, Undef}
     \/ ~hasOwn(DefsOf(doc), id) /\ id \in ObjectPrototype

\* the text of a thrown error begins with `prefix`
ErrorIs(e, prefix) == e.t = "error" /\ e.v[1] = prefix

NotFoundText == "[json-zod] Definition not found for ref: \""

InvalidMethodText == "[json-zod] Invalid method type: expected string, got "

UnknownMethodText == "[json-zod] Unknown Zod method: \"z."

UnknownTailText == "[json-zod] Unknown Zod tail method: \"."

CompileText == "[json-zod] Failed to parse function code: \""

\* UnknownDefinition, InvalidMethod, UnknownMethod, UnknownTailMethod, FunctionCompileError
IsResolverError(e) ==
  /\ e.t = "error"
  /\ e.v[1] \in {NotFoundText, InvalidMethodText, UnknownMethodText, UnknownTailText, CompileText}

RECURSIVE Defective(_, _)
RECURSIVE TailDefective(_, _, _, _)
\* a chained entry from the i-th on is unsupported by the instance it meets, or has a
\* defective argument
TailDefective(doc, type, tail, i) ==
  IF i > Len(tail) THEN FALSE
  ELSE LET name == tail[i].v[1].v
       IN \/ name \notin ChainMethods(type)
          \/ Len(tail[i].v) >= 2 /\ Defective(doc, tail[i].v[2])
          \/ TailDefective(doc, ChainType(type, name), tail, i + 1)

\* the description v carries a defect in the part that is not behind a Reference
Defective(doc, v) ==
  LET shape == Shape(v)
  IN CASE shape = "scalar" -> FALSE
       [] shape = "sequence" -> \E i \in 1..Len(v.v) : Defective(doc, v.v[i])
       [] shape = "reference" -> ~Resolvable(doc, Own(v, "id").v)
       [] shape = "function" -> ~compiles(Own(v, "code").v)
       [] shape = "node" ->
            \/ Own(v, "method").t # "string"
            \/ Own(v, "method").v \notin BasePaths
            \/ Defective(doc, Own(v, "params"))
            \/ /\ Own(v, "tail").t = "array"
               /\ TailDefective(doc, BaseType(Own(v, "method").v), Own(v, "tail").v, 1)
       [] OTHER -> \E i \in 1..Len(v.v) : Defective(doc, v.v[i][2])

\* the handles of pass p
HandlesOf(p) == {h \in 1..Len(lazySchemas) : lazySchemas[h].owner = p}

\* the body definitions[X] behind the handle h
BodyOf(h) == Own(DefsOf(root[lazySchemas[h].owner]), lazySchemas[h].refId)

\* ------------------------------------------------------------------------
\* Properties
\* ------------------------------------------------------------------------

\* C1 (as stated): once fromZodJson has returned a validator, no later use of it, the
\* first forcing of a lazy handle included, raises a resolver error.
C1_NoErrorAfterReturn ==
  \A h \in 1..Len(lazySchemas) :
     lazySchemas[h].state = "failed" => ~IsResolverError(lazySchemas[h].inner)

\* C1 (amended): every resolver error is raised by the walk that meets the defect and
\* unwinds that walk.  fromZodJson fails exactly when the part of `schema` that is not
\* behind a Reference is defective, and then yields a resolver error instead of a
\* validator; the forcing of the handle of X fails exactly when definitions[X], up to its
\* own References, is defective, so such a defect is raised only after fromZodJson has
\* returned.
C1_ErrorsRaisedByTheWalkThatMeetsThem ==
  /\ \A p \in Passes :
        /\ status[p] = "returned" => ~Defective(root[p], SchemaOf(p)) /\ result[p].t # "error"
        /\ status[p] = "threw" => Defective(root[p], SchemaOf(p)) /\ IsResolverError(result[p])
  /\ \A h \in 1..Len(lazySchemas) :
        /\ lazySchemas[h].state = "forced" => ~Defective(root[lazySchemas[h].owner], BodyOf(h))
        /\ lazySchemas[h].state = "failed" =>
              /\ Defective(root[lazySchemas[h].owner], BodyOf(h))
              /\ IsResolverError(lazySchemas[h].inner)

\* C1 witness: a handle returned by fromZodJson failed with UnknownMethod when forced
C1_Witness ==
  \E h \in 1..Len(lazySchemas) :
     /\ status[lazySchemas[h].owner] = "returned"
     /\ lazySchemas[h].state = "failed"
     /\ ErrorIs(lazySchemas[h].inner, UnknownMethodText)

RECURSIVE RefIdsIn(_)
RECURSIVE TailRefIds(_, _)
\* the ids of the References in the arguments of the tail entries from the i-th on
TailRefIds(tail, i) ==
  IF i > Len(tail) THEN {}
  ELSE (IF Len(tail[i].v) >= 2 THEN RefIdsIn(tail[i].v[2]) ELSE {}) \cup TailRefIds(tail, i + 1)

\* the ids of the References that occur in the description v
RefIdsIn(v) ==
  LET shape == Shape(v)
  IN CASE shape = "scalar" -> {}
       [] shape = "sequence" -> UNION {RefIdsIn(v.v[i]) : i \in 1..Len(v.v)}
       [] shape = "reference" -> {Own(v, "id").v}
       [] shape = "function" -> {}
       [] shape = "node" ->
            RefIdsIn(Own(v, "params"))
            \cup (IF Own(v, "tail").t = "array" THEN TailRefIds(Own(v, "tail").v, 1) ELSE {})
       [] OTHER -> UNION {RefIdsIn(v.v[i][2]) : i \in 1..Len(v.v)}

RECURSIVE RefClosure(_, _, _)
\* ids reached from the set S through the bodies of the definitions they name
RefClosure(doc, S, fuel) ==
  LET more == UNION {RefIdsIn(Own(DefsOf(doc), id)) :
                       id \in {x \in S : DefsOf(doc) # Undef /\ hasOwn(DefsOf(doc), x)}}
  IN IF fuel = 0 \/ more \subseteq S THEN S ELSE RefClosure(doc, S \cup more, fuel - 1)

\* the ids of all References reachable from `schema`, directly or through definitions
ReachableRefIds(doc) ==
  RefClosure(doc, RefIdsIn(Own(doc, "schema")),
             IF DefsOf(doc) = Undef THEN 0 ELSE Len(DefsOf(doc).v))

\* C2 (as stated, for ids that are not the name of an inherited member): if any Reference
\* reachable from `schema`, the bodies of reachable definitions included, names an id that
\* is not a key of `definitions`, then fromZodJson does not return a validator.
C2_AnyDanglingReferenceFailsTheCall ==
  \A p \in Passes :
     status[p] = "returned" =>
        \A id \in ReachableRefIds(root[p]) \ ObjectPrototype :
           DefsOf(root[p]) # Undef /\ hasOwn(DefsOf(root[p]), id)

\* C2 (amended): a Reference whose lookup definitions[id] yields no definition fails the
\* walk that meets it with the definition-not-found error naming the id: fromZodJson for
\* the References of `schema`, the forcing of the handle of X for the References inside
\* definitions[X].  A walk that completed met only References whose lookup succeeded.
C2_DanglingReferenceFailsItsWalk ==
  /\ \A p \in Passes :
        /\ status[p] = "returned" =>
              \A id \in RefIdsIn(SchemaOf(p)) : Resolvable(root[p], id)
        /\ status[p] = "threw" /\ ErrorIs(result[p], NotFoundText) =>
              /\ result[p].v[2] \in RefIdsIn(SchemaOf(p))
              /\ ~Resolvable(root[p], result[p].v[2])
  /\ \A h \in 1..Len(lazySchemas) :
        /\ lazySchemas[h].state = "forced" =>
              \A id \in RefIdsIn(BodyOf(h)) : Resolvable(root[lazySchemas[h].owner], id)
        /\ lazySchemas[h].state = "failed" /\ ErrorIs(lazySchemas[h].inner, NotFoundText) =>
              /\ lazySchemas[h].inner.v[2] \in RefIdsIn(BodyOf(h))
              /\ ~Resolvable(root[lazySchemas[h].owner], lazySchemas[h].inner.v[2])

\* C2 witness: fromZodJson returned, and the dangling Reference inside a definition body
\* failed the forcing of that body's handle
C2_Witness ==
  \E h \in 1..Len(lazySchemas) :
     /\ status[lazySchemas[h].owner] = "returned"
     /\ lazySchemas[h].state = "failed"
     /\ lazySchemas[h].inner = DefinitionNotFound("Missing")
     /\ "Missing" \in RefIdsIn(BodyOf(h))

\* C3 (as stated): when `schema` is a Reference whose id is not a key of `definitions`,
\* or `definitions` is absent, fromZodJson fails with the definition-not-found error
\* naming that id and returns no validator.
C3_UnknownSchemaReferenceFails ==
  \A p \in Passes :
     ( /\ status[p] # "idle"
       /\ Shape(SchemaOf(p)) = "reference"
       /\ DefsOf(root[p]) = Undef \/ ~hasOwn(DefsOf(root[p]), Own(SchemaOf(p), "id").v) )
     => /\ status[p] = "threw"
        /\ result[p] = DefinitionNotFound(Own(SchemaOf(p), "id").v)

\* the positions of the trace of pass p that hold an event of the given kind
EventsOf(p, kind) == {i \in 1..Len(log[p]) : log[p][i].ev = kind}

\* the position that closes the walk open at position i of the trace of pass p
WalkEnd(p, i) == CHOOSE k \in EventsOf(p, "end") : k > i /\ \A j \in EventsOf(p, "end") : j > i => k <= j

\* C4 (state part): within one pass every definition id has at most one lazy handle, the
\* cache maps the id to that handle, every encounter of a Reference to the id yields that
\* same handle, and the body of definitions[id] is resolved at most once.
C4_OneHandlePerIdInv ==
  \A p \in Passes :
     /\ \A h1, h2 \in HandlesOf(p) : lazySchemas[h1].refId = lazySchemas[h2].refId => h1 = h2
     /\ \A id \in DOMAIN definitionCache[p] :
           \E h \in HandlesOf(p) :
              lazySchemas[h].refId = id /\ definitionCache[p][id] = lazyInst(h)
     /\ \A i, j \in EventsOf(p, "lazy") \cup EventsOf(p, "hit") :
           log[p][i].id = log[p][j].id => log[p][i].schema = log[p][j].schema
     /\ \A i, j \in EventsOf(p, "lazy") : log[p][i].id = log[p][j].id => i = j
     /\ \A i, j \in EventsOf(p, "body") : log[p][i].id = log[p][j].id => i = j

\* C4 (step part): a cache entry is never replaced or removed.
C4_CacheEntriesKept ==
  \A p \in Passes :
     \A id \in DOMAIN definitionCache[p] :
        id \in DOMAIN definitionCache'[p] /\ definitionCache'[p][id] = definitionCache[p][id]

\* C4: within one resolve pass (the call and every later forcing) each definition id has
\* at most one lazy handle, created and cached at the first encounter of a Reference to it
\* and returned unchanged by every later encounter; the cache entry is never replaced or
\* removed and the body of definitions[id] is resolved at most once.
C4_AtMostOneHandlePerId == []C4_OneHandlePerIdInv /\ [][C4_CacheEntriesKept]_vars

\* C4 witness: a Reference met again while a handle was being forced, after the call had
\* returned, got the handle cached by the call
C4_Witness ==
  \E p \in Passes :
     \E i \in EventsOf(p, "lazy"), t \in EventsOf(p, "thunk"), j \in EventsOf(p, "hit") :
        /\ i < t /\ t < j
        /\ log[p][j].id = log[p][i].id
        /\ log[p][j].schema = log[p][i].schema
        /\ definitionCache[p][log[p][i].id] = log[p][i].schema

\* C5: the handle of X is in the cache before its getter can run: every existing handle is
\* the cache entry of its id, each run of the getter of X comes after the registration of
\* that handle, and while the getter runs a Reference to X is answered with that handle
\* from the cache: no second handle is created and the body of definitions[X] is entered
\* only by the getter itself.
C5_CachedBeforeForced ==
  /\ \A h \in 1..Len(lazySchemas) :
        LET p == lazySchemas[h].owner
        IN /\ lazySchemas[h].refId \in DOMAIN definitionCache[p]
           /\ definitionCache[p][lazySchemas[h].refId] = lazyInst(h)
  /\ \A p \in Passes :
        \A t \in EventsOf(p, "thunk") :
           /\ \E i \in EventsOf(p, "lazy") :
                 i < t /\ log[p][i].id = log[p][t].id /\ log[p][i].schema = lazyInst(log[p][t].h)
           /\ \A k \in (t + 1)..WalkEnd(p, t) :
                 /\ log[p][k].ev = "lazy" => log[p][k].id # log[p][t].id
                 /\ log[p][k].ev = "body" /\ log[p][k].id = log[p][t].id => k = t + 1
                 /\ log[p][k].ev = "hit" /\ log[p][k].id = log[p][t].id =>
                       log[p][k].schema = lazyInst(log[p][t].h)

\* C5 witness: while the getter of X ran, a Reference to X was answered from the cache
C5_Witness ==
  \E p \in Passes :
     \E t \in EventsOf(p, "thunk") :
        \E k \in (t + 1)..WalkEnd(p, t) :
           /\ log[p][k].ev = "hit"
           /\ log[p][k].id = log[p][t].id
           /\ lazySchemas[log[p][t].h].state = "forced"

RECURSIVE Size(_)
RECURSIVE SumSizes(_, _)
\* the total size of the values from the i-th on
SumSizes(values, i) == IF i > Len(values) THEN 0 ELSE Size(values[i]) + SumSizes(values, i + 1)

\* the number of JSON values in the description subtree v
Size(v) ==
  CASE v.t = "array" -> 1 + SumSizes(v.v, 1)
    [] v.t = "object" -> 1 + SumSizes([i \in 1..Len(v.v) |-> v.v[i][2]], 1)
    [] OTHER -> 1

\* C6: every walk ends: the fromZodJson call and each single forcing make at most as many
\* parseNode steps as the description subtree they start from has values, and never
\* exhaust the stack, also on self- and mutually-referencing definitions.
C6_WalkBoundedBySubtree ==
  /\ \A p \in Passes :
        /\ walk[p].steps <= Size(walk[p].node)
        /\ status[p] # "idle" => walk[p].steps >= 1
        /\ result[p] # RangeError
  /\ \A h \in 1..Len(lazySchemas) : lazySchemas[h].inner # RangeError

\* C6 witness: the body of a self-referencing definition was walked to the end
C6_Witness ==
  \E h \in 1..Len(lazySchemas) :
     /\ lazySchemas[h].state = "forced"
     /\ lazySchemas[h].refId \in RefIdsIn(BodyOf(h))
     /\ walk[lazySchemas[h].owner].node = BodyOf(h)
     /\ walk[lazySchemas[h].owner].steps > 1

\* the trace of the fromZodJson call of pass p: the events before its first "end"
CallLog(p) == SubSeq(log[p], 1, WalkEnd(p, 1))

\* the events of the given kind in a trace, in order
Only(trace, kind) == SelectSeq(trace, LAMBDA e : e.ev = kind)

\* C7: parseNode applies the first matching rule of the order scalar-or-null, sequence,
\* Reference, FunctionSpec, Node, plain mapping: the outcome of resolving `schema` is the
\* one of the first shape it matches, so an object with `_is: 'ref'` and `_schema:
\* 'json-zod'` yields a lazy handle (or the definition-not-found error) and one with
\* `_is: 'function'` and `_schema: 'json-zod'` a callable (or the compile error).
C7_FirstMatchingRule ==
  \A p \in Passes :
     status[p] # "idle" =>
        LET s == SchemaOf(p)
            shape == Shape(s)
            ok == status[p] = "returned"
        IN CASE shape = "scalar" -> ok /\ result[p] = s
             [] shape = "sequence" ->
                  ok => result[p].t = "array" /\ Len(result[p].v) = Len(s.v)
             [] shape = "reference" ->
                  IF ok THEN result[p].t = "schema" /\ result[p].v.type = "lazy"
                        /\ Only(CallLog(p), "lookup") = <<>>
                  ELSE result[p] = Err(<<NotFoundText, Own(s, "id").v, "\"">>)
             [] shape = "function" ->
                  IF ok THEN result[p].t = "function" /\ Only(CallLog(p), "lookup") = <<>>
                  ELSE ErrorIs(result[p], CompileText)
             [] shape = "node" ->
                  IF ok THEN result[p].t = "schema" /\ result[p].v.type # "lazy"
                  ELSE IsResolverError(result[p])
             [] OTHER ->
                  ok => result[p].t = "object" /\ ownKeys(result[p]) = ownKeys(s)

\* C7 witness: an object carrying `_is: 'ref'` and `_schema: 'json-zod'` was resolved as a
\* Reference
C7_Witness ==
  \E p \in Passes :
     /\ status[p] = "returned"
     /\ Own(SchemaOf(p), "_is") = Str("ref")
     /\ Own(SchemaOf(p), "_schema") = Str("json-zod")
     /\ result[p].t = "schema" /\ result[p].v.type = "lazy"

\* C8: for a Node with tail [t1..tN], ti is looked up on and invoked on the instance
\* returned by t(i-1) (by the base constructor for i = 1), each once and in the declared
\* order, and the Node resolves to what tN returned (to the base instance when N = 0).
C8_ChainOnCurrentInstance ==
  \A p \in Passes :
     ( /\ status[p] = "returned"
       /\ Shape(SchemaOf(p)) = "node"
       /\ Own(SchemaOf(p), "tail").t = "array"
       /\ Len(Only(CallLog(p), "construct")) = 1 )
     => LET tail == Own(SchemaOf(p), "tail").v
            base == Only(CallLog(p), "construct")[1].returned
            lookups == Only(CallLog(p), "tailLookup")
            calls == Only(CallLog(p), "tailCall")
        IN /\ Len(calls) = Len(tail)
           /\ Len(lookups) = Len(tail)
           /\ \A i \in 1..Len(tail) :
                 /\ calls[i].name = tail[i].v[1].v
                 /\ calls[i].on = IF i = 1 THEN base ELSE calls[i - 1].returned
                 /\ lookups[i].name = calls[i].name
                 /\ lookups[i].on = calls[i].on
           /\ result[p] = IF tail = <<>> THEN base ELSE calls[Len(tail)].returned

\* C8 witness: a chain of two operations, the second invoked on what the first returned
C8_Witness ==
  \E p \in Passes :
     /\ status[p] = "returned"
     /\ Len(Only(CallLog(p), "construct")) = 1
     /\ Len(Only(CallLog(p), "tailCall")) = 2
     /\ Only(CallLog(p), "tailCall")[1].name = "min"
     /\ Only(CallLog(p), "tailCall")[2].name = "max"
     /\ Only(CallLog(p), "tailCall")[2].on = Only(CallLog(p), "tailCall")[1].returned
     /\ result[p] = Only(CallLog(p), "tailCall")[2].returned

\* dotted paths with a segment that the library surface does not have
MissingPaths == {"unknownMethod", "coerce.nope", "nope.string", "string.x", ""}

\* dotted paths whose final value is not invocable
NonInvocablePaths == {"coerce"}

\* C9: a Node whose method path has a missing segment, or ends in a value that is not
\* invocable, fails with UnknownMethod whose message carries the full path as 'z.<path>';
\* no constructor is invoked and no param is resolved.
C9_UnknownMethod ==
  \A p \in Passes :
     ( /\ status[p] # "idle"
       /\ Shape(SchemaOf(p)) = "node"
       /\ Own(SchemaOf(p), "method").t = "string"
       /\ Own(SchemaOf(p), "method").v \in MissingPaths \cup NonInvocablePaths )
     => /\ status[p] = "threw"
        /\ result[p] = Err(<<"[json-zod] Unknown Zod method: \"z.", Own(SchemaOf(p), "method").v, "\"">>)
        /\ Only(log[p], "construct") = <<>>
        /\ walk[p].steps = 1
        /\ HandlesOf(p) = {}

\* C9 witness: a namespaced path with a missing last segment failed with UnknownMethod
\* although the Node also had a param that could not be resolved
C9_Witness ==
  \E p \in Passes :
     /\ status[p] = "threw"
     /\ Own(SchemaOf(p), "method") = Str("coerce.nope")
     /\ "Missing" \in RefIdsIn(Own(SchemaOf(p), "params"))
     /\ result[p] = Err(<<"[json-zod] Unknown Zod method: \"z.", "coerce.nope", "\"">>)

RECURSIVE FirstUnsupported(_, _, _)
\* the index of the first tail entry, from the i-th on, whose name is no operation of the
\* instance it meets; 0 when there is none
FirstUnsupported(type, tail, i) ==
  IF i > Len(tail) THEN 0
  ELSE IF tail[i].v[1].v \notin ChainMethods(type) THEN i
  ELSE FirstUnsupported(ChainType(type, tail[i].v[1].v), tail, i + 1)

\* C10: a Node with a valid base method whose tail has an entry that is missing or not
\* invocable on the current instance fails with UnknownTailMethod whose message names that
\* tail method and the base method path of the Node.
C10_UnknownTailMethod ==
  \A p \in Passes :
     ( /\ status[p] # "idle"
       /\ Shape(SchemaOf(p)) = "node"
       /\ Own(SchemaOf(p), "method").t = "string"
       /\ Own(SchemaOf(p), "method").v \in BasePaths
       /\ ~Defective(root[p], Own(SchemaOf(p), "params"))
       /\ Own(SchemaOf(p), "tail").t = "array"
       /\ \A i \in 1..Len(Own(SchemaOf(p), "tail").v) :
             Len(Own(SchemaOf(p), "tail").v[i].v) >= 2 =>
                ~Defective(root[p], Own(SchemaOf(p), "tail").v[i].v[2])
       /\ FirstUnsupported(BaseType(Own(SchemaOf(p), "method").v),
                           Own(SchemaOf(p), "tail").v, 1) > 0 )
     => LET method == Own(SchemaOf(p), "method").v
            tail == Own(SchemaOf(p), "tail").v
            k == FirstUnsupported(BaseType(method), tail, 1)
        IN /\ status[p] = "threw"
           /\ result[p] = Err(<<"[json-zod] Unknown Zod tail method: \".", tail[k].v[1].v,
                                "()\" on \"z.", method, "\"">>)

\* C10 witness: `min` after `optional` failed on the instance `optional` had returned,
\* and the message names `min` and the base method
C10_Witness ==
  \E p \in Passes :
     /\ status[p] = "threw"
     /\ Own(SchemaOf(p), "method") = Str("coerce.string")
     /\ Len(Only(log[p], "tailCall")) = 1
     /\ Only(log[p], "tailCall")[1].name = "optional"
     /\ result[p] = Err(<<"[json-zod] Unknown Zod tail method: \".", "min",
                          "()\" on \"z.", "coerce.string", "\"">>)

\* C11 (as stated): a Node whose `method` is not a nonempty string (a value that is not a
\* string, or the empty string) fails with InvalidMethod, and the check comes before any
\* lookup in the library surface.
C11_InvalidMethodBeforeLookup ==
  \A p \in Passes :
     ( /\ status[p] # "idle"
       /\ Shape(SchemaOf(p)) = "node"
       /\ Own(SchemaOf(p), "method").t # "string" \/ Own(SchemaOf(p), "method") = Str("") )
     => /\ status[p] = "threw"
        /\ ErrorIs(result[p], InvalidMethodText)
        /\ Only(log[p], "lookup") = <<>>

RECURSIVE HasFunctionSpec(_)
\* the description v contains a FunctionSpec
HasFunctionSpec(v) ==
  CASE v.t = "array" -> \E i \in 1..Len(v.v) : HasFunctionSpec(v.v[i])
    [] v.t = "object" ->
         Own(v, "_is") = Str("function") \/ \E i \in 1..Len(v.v) : HasFunctionSpec(v.v[i][2])
    [] OTHER -> FALSE

RECURSIVE Norm(_, _)
\* the value v as pass p sees it: a lazy handle of the pass is named by its id, a handle
\* of another pass is a stranger
Norm(v, p) ==
  CASE v.t = "schema" ->
         LET o == v.v.origin
         IN CASE o[1] = "lazy" ->
                   Inst("lazy", <<"lazy", IF lazySchemas[o[2]].owner = p
                                          THEN lazySchemas[o[2]].refId ELSE "(stranger)">>)
              [] o[1] = "base" ->
                   Inst(v.v.type, <<"base", o[2], [i \in 1..Len(o[3]) |-> Norm(o[3][i], p)]>>)
              [] OTHER ->
                   Inst(v.v.type, <<"tail", Norm(o[2], p), o[3],
                                    [i \in 1..Len(o[4]) |-> Norm(o[4][i], p)]>>)
    [] v.t = "array" -> Arr([i \in 1..Len(v.v) |-> Norm(v.v[i], p)])
    [] v.t = "object" -> Obj([i \in 1..Len(v.v) |-> <<v.v[i][1], Norm(v.v[i][2], p)>>])
    [] OTHER -> v

\* the base-constructor and chained-operation invocations of a trace of pass p, in order,
\* with their receiver, arguments and value
Invocations(trace, p) ==
  LET inv == SelectSeq(trace, LAMBDA e : e.ev \in {"construct", "tailCall"})
      args(e) == [i \in 1..Len(e.args) |-> Norm(e.args[i], p)]
  IN [i \in 1..Len(inv) |->
        IF inv[i].ev = "construct"
        THEN <<"construct", inv[i].method, args(inv[i]), Norm(inv[i].returned, p)>>
        ELSE <<"tailCall", Norm(inv[i].on, p), inv[i].name, args(inv[i]),
               Norm(inv[i].returned, p)>>]

\* the trace of the forcing of handle h of pass p
ForcingLog(p, h) ==
  LET i == CHOOSE j \in EventsOf(p, "thunk") : log[p][j].h = h
  IN SubSeq(log[p], i, WalkEnd(p, i))

\* C12: resolution is determined by the structure of the document.  For a document
\* without FunctionSpec, the call on it and the call on its JSON round trip end the same
\* way, make the same base-constructor and chained-operation invocations in the same
\* order with equal arguments (a handle standing for the id it was registered under) and
\* yield equal validators; the forcings of the handles of one id do so too.
C12_DeterministicInStructure ==
  \A p, q \in DOMAIN root :
     ( root[q] = jsonRoundTrip(root[p]) /\ ~HasFunctionSpec(root[p]) ) =>
        /\ (status[p] # "idle" /\ status[q] # "idle") =>
              /\ status[p] = status[q]
              /\ Norm(result[p], p) = Norm(result[q], q)
              /\ Invocations(CallLog(p), p) = Invocations(CallLog(q), q)
        /\ \A h \in HandlesOf(p), k \in HandlesOf(q) :
              ( /\ lazySchemas[h].refId = lazySchemas[k].refId
                /\ lazySchemas[h].state # "unforced"
                /\ lazySchemas[k].state # "unforced" )
              => /\ lazySchemas[h].state = lazySchemas[k].state
                 /\ Norm(lazySchemas[h].inner, p) = Norm(lazySchemas[k].inner, q)
                 /\ Invocations(ForcingLog(p, h), p) = Invocations(ForcingLog(q, k), q)

\* C12 witness: the second call ran on a round trip that is a different value from the
\* original, both calls made a constructor invocation, and both forced their handle of A
C12_Witness ==
  /\ DOMAIN root = PassesTwo
  /\ root[2] # root[1]
  /\ root[2] = jsonRoundTrip(root[1])
  /\ status[1] = "returned" /\ status[2] = "returned"
  /\ Len(Invocations(CallLog(1), 1)) >= 1
  /\ \E h \in HandlesOf(1), k \in HandlesOf(2) :
        /\ lazySchemas[h].refId = "A" /\ lazySchemas[k].refId = "A"
        /\ lazySchemas[h].state = "forced" /\ lazySchemas[k].state = "forced"
        /\ Len(Invocations(ForcingLog(1, h), 1)) >= 1

RECURSIVE HandlesIn(_)
\* the heap cells of the lazy handles that occur in a value
HandlesIn(v) ==
  CASE v.t = "schema" ->
         LET o == v.v.origin
         IN CASE o[1] = "lazy" -> {o[2]}
              [] o[1] = "base" -> UNION {HandlesIn(o[3][i]) : i \in 1..Len(o[3])}
              [] OTHER -> HandlesIn(o[2]) \cup UNION {HandlesIn(o[4][i]) : i \in 1..Len(o[4])}
    [] v.t = "array" -> UNION {HandlesIn(v.v[i]) : i \in 1..Len(v.v)}
    [] v.t = "object" -> UNION {HandlesIn(v.v[i][2]) : i \in 1..Len(v.v)}
    [] OTHER -> {}

\* C13 (state part): the Map of a pass holds, under each id, a handle that this pass
\* created for this id; what the call of a pass returned, what its cache lookups answered
\* and what its forcings produced contain handles of this pass only.
C13_OwnCacheInv ==
  \A p \in DOMAIN root :
     /\ \A id \in DOMAIN definitionCache[p] :
           \E h \in HandlesOf(p) :
              definitionCache[p][id] = lazyInst(h) /\ lazySchemas[h].refId = id
     /\ HandlesIn(result[p]) \subseteq HandlesOf(p)
     /\ \A i \in EventsOf(p, "hit") \cup EventsOf(p, "lazy") :
           HandlesIn(log[p][i].schema) \subseteq HandlesOf(p)
     /\ \A h \in HandlesOf(p) : HandlesIn(lazySchemas[h].inner) \subseteq HandlesOf(p)

\* C13 (step part): a step of one pass, its call or the forcing of one of its handles,
\* leaves the Map, the handles and the trace of the other pass as they were.
C13_OtherPassUntouched ==
  \A p, q \in DOMAIN root :
     (p # q /\ log'[p] # log[p]) =>
        /\ definitionCache'[q] = definitionCache[q]
        /\ log'[q] = log[q]
        /\ \A h \in HandlesOf(q) : lazySchemas'[h] = lazySchemas[h]
        /\ \A h \in (1..Len(lazySchemas')) \ (1..Len(lazySchemas)) : lazySchemas'[h].owner = p

\* C13: each fromZodJson call has its own reference cache, under every interleaving of
\* two passes and their forcings.
C13_CachePerCall == []C13_OwnCacheInv /\ [][C13_OtherPassUntouched]_vars

\* C13 witness: both passes ran on the same document, each registered its own handle for
\* A, and a handle of the second pass was forced between two forcings of the first
C13_Witness ==
  /\ DOMAIN root = PassesTwo
  /\ root[1] = root[2]
  /\ \E h1, h2 \in HandlesOf(1), k \in HandlesOf(2) :
        /\ h1 < k /\ k < h2
        /\ lazySchemas[h1].refId = "A" /\ lazySchemas[k].refId = "A"
        /\ lazySchemas[h1].state = "forced" /\ lazySchemas[k].state = "forced"
        /\ definitionCache[1]["A"] = lazyInst(h1)
        /\ definitionCache[2]["A"] = lazyInst(k)

\* C14: the resolver never writes into its input.  No step, neither the call (returning
\* or failing) nor a later forcing, changes the root document of any pass: schema,
\* definitions, params, tail entries and shape maps stay as the caller wrote them; what a
\* step writes is the Map and the handles of its pass and the values it builds.
C14_InputNeverMutated ==
  [][ /\ root' = root
      /\ \A p \in Passes :
            (definitionCache'[p] # definitionCache[p]) =>
               /\ DOMAIN definitionCache[p] \subseteq DOMAIN definitionCache'[p]
               /\ \A id \in DOMAIN definitionCache[p] :
                     definitionCache'[p][id] = definitionCache[p][id] ]_vars

\* C14 witness: a shape map whose values are a Node and a Reference was resolved into a
\* mapping of a schema instance and a handle, the handle was forced, and the document
\* still holds the descriptions
C14_Witness ==
  \E p \in Passes :
     /\ status[p] = "returned"
     /\ Own(SchemaOf(p), "method") = Str("object")
     /\ Own(SchemaOf(p), "params") =
           Arr(<<Obj(<< <<"b", Leaf("string")>>, <<"1", Ref("A")>>, <<"0", Num(7)>> >>)>>)
     /\ Len(Only(CallLog(p), "construct")) = 2
     /\ Only(CallLog(p), "construct")[2].args[1] # Own(SchemaOf(p), "params").v[1]
     /\ Only(CallLog(p), "construct")[2].args[1].t = "object"
     /\ \E h \in HandlesOf(p) : lazySchemas[h].state = "forced"

\* C15 (state part): the call resolves no definition body, and the forcing of the handle
\* of an id resolves the body of that id and no other; handles of one pass that stand for
\* different ids are different handles, and the handles a forced body holds are those of
\* the ids it refers to.
C15_OneBodyPerForcing ==
  \A p \in Passes :
     /\ status[p] # "idle" => Only(CallLog(p), "body") = <<>>
     /\ \A h \in HandlesOf(p) :
           lazySchemas[h].state # "unforced" =>
              /\ \A i \in 1..Len(ForcingLog(p, h)) :
                    ForcingLog(p, h)[i].ev = "body" =>
                       i = 2 /\ ForcingLog(p, h)[i].id = lazySchemas[h].refId
              /\ lazySchemas[h].state = "forced" =>
                    {lazySchemas[k].refId : k \in HandlesIn(lazySchemas[h].inner)}
                       = RefIdsIn(BodyOf(h))
     /\ \A h, k \in HandlesOf(p) : h # k => lazySchemas[h].refId # lazySchemas[k].refId

\* C15 (step part): a step forces at most one handle; every other handle keeps its state,
\* and the handles the step registers are unforced.
C15_OthersStayUnforced ==
  /\ Cardinality({h \in 1..Len(lazySchemas) : lazySchemas'[h].state # lazySchemas[h].state}) <= 1
  /\ \A h \in (1..Len(lazySchemas')) \ (1..Len(lazySchemas)) :
        lazySchemas'[h].state = "unforced" /\ lazySchemas'[h].inner = Undef

\* C15: in a cycle A -> B -> C -> A every id gets its own handle, and forcing the handle
\* of one id resolves that id's body only: the References inside it become unforced
\* handles, registered by this forcing or fetched from the cache.
C15_CycleForcedOneLevelAtATime == []C15_OneBodyPerForcing /\ [][C15_OthersStayUnforced]_vars

\* C15 witness: in the cycle, A was forced and registered B; B is unforced and C has no
\* handle yet
C15_Witness ==
  \E p \in Passes :
     /\ DefsOf(root[p]) = DefsCycle
     /\ SchemaOf(p) = Ref("A")
     /\ \E a, b \in HandlesOf(p) :
           /\ lazySchemas[a].refId = "A" /\ lazySchemas[a].state = "forced"
           /\ lazySchemas[b].refId = "B" /\ lazySchemas[b].state = "unforced"
           /\ HandlesIn(lazySchemas[a].inner) = {b}
     /\ \A h \in HandlesOf(p) : lazySchemas[h].refId # "C"

RECURSIVE BaseOf(_)
\* the instance the base constructor returned, under the chained operations of inst
BaseOf(inst) == IF inst.v.origin[1] = "tail" THEN BaseOf(inst.v.origin[2]) ELSE inst

RECURSIVE ChainOf(_)
\* the chained operations that led to inst, in call order, as <<name, args>>
ChainOf(inst) ==
  IF inst.v.origin[1] = "tail"
  THEN Append(ChainOf(inst.v.origin[2]), <<inst.v.origin[3], inst.v.origin[4]>>)
  ELSE <<>>

RECURSIVE ScalarsKept(_, _)
\* every scalar or null written in the description d, at any depth of sequences, shape
\* maps, params and tail params, stands unchanged at the same place of the resolved value
ScalarsKept(d, out) ==
  LET shape == Shape(d)
  IN CASE shape = "scalar" -> out = d
       [] shape = "sequence" ->
            /\ out.t = "array" /\ Len(out.v) = Len(d.v)
            /\ \A i \in 1..Len(d.v) : ScalarsKept(d.v[i], out.v[i])
       [] shape = "mapping" ->
            /\ out.t = "object"
            /\ \A i \in 1..Len(d.v) :
                  d.v[i][1] # "__proto__" =>
                     hasOwn(out, d.v[i][1]) /\ ScalarsKept(d.v[i][2], ownValue(out, d.v[i][1]))
       [] shape = "node" ->
            /\ out.t = "schema"
            /\ out.v.origin[1] # "lazy"
            /\ Own(d, "params").t = "array" =>
                  ScalarsKept(Own(d, "params"), Arr(BaseOf(out).v.origin[3]))
            /\ Own(d, "tail").t = "array" =>
                  /\ Len(ChainOf(out)) = Len(Own(d, "tail").v)
                  /\ \A j \in 1..Len(Own(d, "tail").v) :
                        Len(Own(d, "tail").v[j].v) >= 2 =>
                           ScalarsKept(Own(d, "tail").v[j].v[2], Arr(ChainOf(out)[j][2]))
       [] OTHER -> TRUE

RECURSIVE ResolutionOf(_, _, _)
\* out is what the dispatch rule yields for the description d: the scalar itself, a
\* sequence of the resolutions of the elements, the handle of the referenced id, the
\* callable of the code, the instance built by the method from the resolved params and
\* chained through the tail, a mapping of the resolutions of the values.  With `exact`
\* a mapping must have the keys of d, all of them and in enumeration order.
ResolutionOf(d, out, exact) ==
  LET shape == Shape(d)
  IN CASE shape = "scalar" -> out = d
       [] shape = "sequence" ->
            /\ out.t = "array"
            /\ Len(out.v) = Len(d.v)
            /\ \A i \in 1..Len(d.v) : ResolutionOf(d.v[i], out.v[i], exact)
       [] shape = "reference" ->
            /\ out.t = "schema"
            /\ out.v.origin[1] = "lazy"
            /\ lazySchemas[out.v.origin[2]].refId = Own(d, "id").v
       [] shape = "function" ->
            out.t = "function" /\ out.v[1] = "compiled" /\ out.v[3] = Own(d, "code").v
       [] shape = "node" ->
            /\ out.t = "schema"
            /\ out.v.origin[1] # "lazy"
            /\ BaseOf(out).v.origin[2] = Own(d, "method").v
            /\ IF Own(d, "params").t = "array"
               THEN ResolutionOf(Own(d, "params"), Arr(BaseOf(out).v.origin[3]), exact)
               ELSE BaseOf(out).v.origin[3] = <<>>
            /\ IF Own(d, "tail").t = "array"
               THEN /\ Len(ChainOf(out)) = Len(Own(d, "tail").v)
                    /\ \A j \in 1..Len(Own(d, "tail").v) :
                          /\ ChainOf(out)[j][1] = Own(d, "tail").v[j].v[1].v
                          /\ IF Len(Own(d, "tail").v[j].v) >= 2
                             THEN ResolutionOf(Own(d, "tail").v[j].v[2],
                                               Arr(ChainOf(out)[j][2]), exact)
                             ELSE ChainOf(out)[j][2] = <<>>
               ELSE ChainOf(out) = <<>>
       [] OTHER ->
            /\ out.t = "object"
            /\ exact => ownKeys(out) = [i \in 1..Len(d.v) |-> forIn(d.v)[i][1]]
            /\ \A i \in 1..Len(d.v) :
                  hasOwn(out, d.v[i][1]) => ResolutionOf(d.v[i][2], ownValue(out, d.v[i][1]), exact)

RECURSIVE ExpectedOrder(_)
RECURSIVE ExpectedOrderOfAll(_, _)
RECURSIVE ExpectedOrderOfTail(_, _)
\* the registrations, compilations and invocations that resolving the descriptions
\* ds[i], ds[i+1], ... one after the other makes
ExpectedOrderOfAll(ds, i) ==
  IF i > Len(ds) THEN <<>> ELSE ExpectedOrder(ds[i]) \o ExpectedOrderOfAll(ds, i + 1)

\* those of the tail entries from the i-th on
ExpectedOrderOfTail(tail, i) ==
  IF i > Len(tail) THEN <<>>
  ELSE (IF Len(tail[i].v) >= 2 THEN ExpectedOrder(tail[i].v[2]) ELSE <<>>)
       \o << <<"tailCall", tail[i].v[1].v>> >> \o ExpectedOrderOfTail(tail, i + 1)

\* those of one description: elements of a sequence in index order, values of a mapping in
\* enumeration order, params before the constructor, each tail entry after the one before
ExpectedOrder(d) ==
  LET shape == Shape(d)
  IN CASE shape = "scalar" -> <<>>
       [] shape = "sequence" -> ExpectedOrderOfAll(d.v, 1)
       [] shape = "reference" -> << <<"ref", Own(d, "id").v>> >>
       [] shape = "function" -> << <<"compile", Own(d, "code").v>> >>
       [] shape = "node" ->
            (IF Own(d, "params").t = "array" THEN ExpectedOrder(Own(d, "params")) ELSE <<>>)
            \o << <<"construct", Own(d, "method").v>> >>
            \o (IF Own(d, "tail").t = "array" THEN ExpectedOrderOfTail(Own(d, "tail").v, 1)
                ELSE <<>>)
       [] OTHER -> ExpectedOrderOfAll([i \in 1..Len(d.v) |-> forIn(d.v)[i][2]], 1)

\* the registrations, compilations and invocations of a trace, in order
ObservedOrder(trace) ==
  LET seen == SelectSeq(trace, LAMBDA e : e.ev \in {"lazy", "hit", "compile", "construct", "tailCall"})
  IN [i \in 1..Len(seen) |->
        CASE seen[i].ev \in {"lazy", "hit"} -> <<"ref", seen[i].id>>
          [] seen[i].ev = "compile" -> <<"compile", seen[i].code>>
          [] seen[i].ev = "construct" -> <<"construct", seen[i].method>>
          [] OTHER -> <<"tailCall", seen[i].name>>]

\* C17: resolving a sequence yields a sequence of the same length whose i-th element is
\* the resolution of the i-th element of the input, at every nesting level, and the
\* elements are resolved in index order.
C17_SequenceElementwiseInOrder ==
  /\ \A p \in Passes :
        status[p] = "returned" =>
           /\ ResolutionOf(SchemaOf(p), result[p], FALSE)
           /\ ObservedOrder(CallLog(p)) = ExpectedOrder(SchemaOf(p))
  /\ \A h \in 1..Len(lazySchemas) :
        (lazySchemas[h].state = "forced" /\ BodyOf(h) # Undef) =>
           /\ ResolutionOf(BodyOf(h), lazySchemas[h].inner, FALSE)
           /\ ObservedOrder(ForcingLog(lazySchemas[h].owner, h)) = ExpectedOrder(BodyOf(h))

\* C17 witness: the sequence [string Node, Reference A, "x", true] resolved to [schema
\* instance, handle, "x", true], the Node constructed before the Reference was registered
C17_Witness ==
  \E p \in Passes :
     /\ status[p] = "returned"
     /\ SchemaOf(p) = Arr(<<Leaf("string"), Ref("A"), Str("x"), Bool(TRUE)>>)
     /\ Len(result[p].v) = 4
     /\ result[p].v[1] = callBase(ZFn("string"), <<>>)
     /\ result[p].v[2].v.type = "lazy"
     /\ result[p].v[3] = Str("x") /\ result[p].v[4] = Bool(TRUE)
     /\ ObservedOrder(CallLog(p)) = << <<"construct", "string">>, <<"ref", "A">> >>

\* C18 (as stated): resolving a plain mapping yields a mapping with exactly the own keys
\* of the input, in the same enumeration order, each mapped to the resolution of its
\* value; the empty mapping resolves to the empty mapping.
C18_MappingKeysKept ==
  \A p \in Passes :
     status[p] = "returned" => ResolutionOf(SchemaOf(p), result[p], TRUE)

\* C19: the callable a FunctionSpec resolves to, each time it is called with runtime
\* arguments, evaluates `code` to a function f and returns f(v) for the first runtime
\* argument v (undefined when there is none): exactly one argument is passed to f, the
\* further runtime arguments are not.
C19_OneArgumentForwarded ==
  \A i \in 1..Len(invocations) :
     LET c == invocations[i]
         first == IF c.args = <<>> THEN Undef ELSE Head(c.args)
     IN /\ c.fn.t = "function" /\ c.fn.v[1] = "compiled"
        /\ \E p \in Passes :
              \E j \in EventsOf(p, "compile") :
                 log[p][j].fn = c.fn /\ log[p][j].code = c.evaluated
        /\ Len(c.passed) = 1
        /\ c.passed[1] = first
        /\ c.returned = [t |-> "returned", v |-> <<c.evaluated, <<first>>>>]

\* C19 witness: the callable of `val => val.toUpperCase()` was called twice, once as the
\* library's transform calls it, with the value and a context object, and once with three
\* numbers; each time only the first argument reached f
C19_Witness ==
  /\ Len(invocations) = 2
  /\ invocations[1].evaluated = "val => val.toUpperCase()"
  /\ Len(invocations[1].args) = 2
  /\ invocations[1].passed = <<Str("abc")>>
  /\ invocations[2].fn = invocations[1].fn
  /\ Len(invocations[2].args) = 3
  /\ invocations[2].passed = <<Num(1)>>

RECURSIVE Repaired(_)
\* the description d with the code of every uncompilable FunctionSpec replaced by code
\* that compiles
Repaired(d) ==
  CASE d.t = "array" -> Arr([i \in 1..Len(d.v) |-> Repaired(d.v[i])])
    [] d.t = "object" ->
         IF Own(d, "_is") = Str("function") /\ Own(d, "code").t = "string"
            /\ ~compiles(Own(d, "code").v)
         THEN Func("(x) => x + 1")
         ELSE Obj([i \in 1..Len(d.v) |-> <<d.v[i][1], Repaired(d.v[i][2])>>])
    [] OTHER -> d

\* the index of the first compilation of uncompilable code in an order, 0 when none
FirstUncompilable(order) ==
  LET bad == {k \in 1..Len(order) : order[k][1] = "compile" /\ ~compiles(order[k][2])}
  IN IF bad = {} THEN 0 ELSE CHOOSE k \in bad : \A j \in bad : k <= j

\* the walk of the description d, with the given outcome and trace, stopped at the first
\* uncompilable FunctionSpec: it made what comes before it in the order of resolution and
\* nothing more, and failed with the compile error that carries the source text and the
\* reason
StoppedAtUncompilable(d, failed, error, trace) ==
  LET order == ExpectedOrder(d)
      k == FirstUncompilable(order)
  IN k > 0 =>
        /\ failed
        /\ error = Err(<<"[json-zod] Failed to parse function code: \"", order[k][2],
                         "\". Error: ", "SyntaxError">>)
        /\ ObservedOrder(trace) = SubSeq(order, 1, k - 1)

\* C20: a FunctionSpec whose code cannot be compiled fails the walk at its resolution
\* with FunctionCompileError whose message carries the source text and the reason; no
\* callable is produced for it, and the operation that would have received it (the
\* constructor for a param, the chained operation for a tail param) is not invoked.
C20_CompileFailureStopsTheWalk ==
  /\ \A p \in Passes :
        (status[p] # "idle" /\ ~Defective(root[p], Repaired(SchemaOf(p)))) =>
           /\ StoppedAtUncompilable(SchemaOf(p), status[p] = "threw", result[p], CallLog(p))
           /\ ErrorIs(result[p], CompileText) => FirstUncompilable(ExpectedOrder(SchemaOf(p))) > 0
  /\ \A h \in 1..Len(lazySchemas) :
        ( /\ lazySchemas[h].state # "unforced"
          /\ BodyOf(h) # Undef
          /\ ~Defective(root[lazySchemas[h].owner], Repaired(BodyOf(h))) ) =>
           StoppedAtUncompilable(BodyOf(h), lazySchemas[h].state = "failed",
                                 lazySchemas[h].inner, ForcingLog(lazySchemas[h].owner, h))

\* C20 witness: after a first transform with a compiled callable, the FunctionSpec of the
\* second transform failed to compile; the second transform and the `optional` after it
\* were not invoked
C20_Witness ==
  \E p \in Passes :
     /\ status[p] = "threw"
     /\ result[p] = Err(<<"[json-zod] Failed to parse function code: \"", "val => (",
                          "\". Error: ", "SyntaxError">>)
     /\ ObservedOrder(CallLog(p)) =
           << <<"construct", "string">>, <<"compile", "(x) => x + 1">>,
              <<"tailCall", "transform">> >>
     /\ Len(Own(SchemaOf(p), "tail").v) = 3

\* an object that describes a method call by a `method` field and carries neither an
\* `_is` nor a `_schema` field
UnmarkedMethodCall(d) ==
  /\ d.t = "object"
  /\ Own(d, "method").t = "string"
  /\ Own(d, "_schema") = Undef
  /\ Own(d, "_is") = Undef

\* C21 (as stated): an object that describes a method call by its `method` field is
\* resolved as a Node even without the `_schema: 'json-zod'` marker: a shape entry so
\* written reaches the object constructor as the instance that its method and tail build.
C21_MethodCallWithoutMarker ==
  \A p \in Passes :
     ( /\ status[p] = "returned"
       /\ Shape(SchemaOf(p)) = "node"
       /\ Own(SchemaOf(p), "params").t = "array" )
     => \A i \in 1..Len(Own(SchemaOf(p), "params").v) :
           LET shape == Own(SchemaOf(p), "params").v[i]
               given == BaseOf(result[p]).v.origin[3][i]
           IN Shape(shape) = "mapping" =>
                 \A j \in 1..Len(shape.v) :
                    (UnmarkedMethodCall(shape.v[j][2]) /\ hasOwn(given, shape.v[j][1])) =>
                       /\ ownValue(given, shape.v[j][1]).t = "schema"
                       /\ BaseOf(ownValue(given, shape.v[j][1])).v.origin[2]
                             = Own(shape.v[j][2], "method").v

\* C22 (as stated): toZodJson turns every schema it is given into a RootDocument: it
\* returns an object with a `schema` Node and does not fail.
C22_ToZodJsonAlwaysReturns ==
  \A p \in Passes :
     converted[p] # Undef =>
        /\ converted[p].out.t = "object"
        /\ Shape(Own(converted[p].out, "schema")) = "node"

RECURSIVE ExpectedSteps(_)
RECURSIVE ExpectedStepsOfAll(_, _)
RECURSIVE ExpectedStepsOfTail(_, _)
\* the lookups, registrations, compilations and invocations that resolving the
\* descriptions ds[i], ds[i+1], ... one after the other makes when nothing fails
ExpectedStepsOfAll(ds, i) ==
  IF i > Len(ds) THEN <<>> ELSE ExpectedSteps(ds[i]) \o ExpectedStepsOfAll(ds, i + 1)

\* those of the tail entries from the i-th on: the lookup of the operation, the entry's
\* params, the application
ExpectedStepsOfTail(tail, i) ==
  IF i > Len(tail) THEN <<>>
  ELSE << <<"tailLookup", tail[i].v[1].v>> >>
       \o (IF Len(tail[i].v) >= 2 THEN ExpectedSteps(tail[i].v[2]) ELSE <<>>)
       \o << <<"tailCall", tail[i].v[1].v>> >> \o ExpectedStepsOfTail(tail, i + 1)

\* those of one description; a Node: the lookup of `method`, the params, the base
\* constructor, the tail entries
ExpectedSteps(d) ==
  LET shape == Shape(d)
  IN CASE shape = "scalar" -> <<>>
       [] shape = "sequence" -> ExpectedStepsOfAll(d.v, 1)
       [] shape = "reference" -> << <<"ref", Own(d, "id").v>> >>
       [] shape = "function" -> << <<"compile", Own(d, "code").v>> >>
       [] shape = "node" ->
            IF Own(d, "method").t # "string" THEN <<>>
            ELSE << <<"lookup", Own(d, "method").v>> >>
                 \o (IF Own(d, "params").t = "array" THEN ExpectedSteps(Own(d, "params")) ELSE <<>>)
                 \o << <<"construct", Own(d, "method").v>> >>
                 \o (IF Own(d, "tail").t = "array" THEN ExpectedStepsOfTail(Own(d, "tail").v, 1)
                     ELSE <<>>)
       [] OTHER -> ExpectedStepsOfAll([i \in 1..Len(d.v) |-> forIn(d.v)[i][2]], 1)

\* the lookups, registrations, compilations and invocations of a trace, in order
ObservedSteps(trace) ==
  LET seen == SelectSeq(trace, LAMBDA e : e.ev \in {"lookup", "lazy", "hit", "compile",
                                                    "construct", "tailLookup", "tailCall"})
  IN [i \in 1..Len(seen) |->
        CASE seen[i].ev \in {"lazy", "hit"} -> <<"ref", seen[i].id>>
          [] seen[i].ev = "compile" -> <<"compile", seen[i].code>>
          [] seen[i].ev \in {"lookup", "construct"} -> <<seen[i].ev, seen[i].method>>
          [] OTHER -> <<seen[i].ev, seen[i].name>>]

\* a is an initial segment of b
IsPrefix(a, b) == Len(a) <= Len(b) /\ a = SubSeq(b, 1, Len(a))

\* the walk that left `trace` resolved the Node d of document doc as one linear sequence:
\* lookup of `method`, params, base constructor, tail
LinearConstruction(doc, d, trace, threw, err) ==
  LET obs == ObservedSteps(trace)
      method == Own(d, "method").v
      n == Len(ExpectedSteps(Own(d, "params")))
  IN /\ IsPrefix(obs, ExpectedSteps(d))
     /\ Len(obs) >= 1
     /\ method \notin BasePaths =>
           /\ obs = << <<"lookup", method>> >>
           /\ threw /\ ErrorIs(err, UnknownMethodText)
     /\ (method \in BasePaths /\ Defective(doc, Own(d, "params"))) =>
           /\ Len(obs) < n + 2
           /\ threw
     /\ (method \in BasePaths /\ ~Defective(doc, Own(d, "params"))) =>
           /\ Len(obs) >= n + 2
           /\ obs[n + 2] = <<"construct", method>>

\* C23: the construction of one Node is a linear sequence without backtracking.  The
\* steps a walk makes on a Node are always an initial segment of: lookup of `method`,
\* resolution of the params, one invocation of the base constructor, the tail entries.
\* A Node with an unknown method fails with UnknownMethod before any param is resolved,
\* whatever its params are, and a Node with a failing param fails before the constructor
\* is invoked.  This holds for the Node at `schema` and for the Node of a forced body.
C23_NodeConstructionIsLinear ==
  /\ \A p \in Passes :
        ( status[p] # "idle" /\ Shape(SchemaOf(p)) = "node"
          /\ Own(SchemaOf(p), "method").t = "string" ) =>
           LinearConstruction(root[p], SchemaOf(p), CallLog(p), status[p] = "threw", result[p])
  /\ \A h \in 1..Len(lazySchemas) :
        ( lazySchemas[h].state \in {"forced", "failed"} /\ Shape(BodyOf(h)) = "node"
          /\ Own(BodyOf(h), "method").t = "string" ) =>
           LinearConstruction(root[lazySchemas[h].owner], BodyOf(h),
                              ForcingLog(lazySchemas[h].owner, h),
                              lazySchemas[h].state = "failed", lazySchemas[h].inner)

\* C23 witness: the Node {method: "coerce.nope", params: [Reference Missing]}, which has
\* an unknown method and a failing param, failed with UnknownMethod after the lookup
\* alone: nothing was registered and no constructor was invoked
C23_Witness ==
  \E p \in Passes :
     /\ status[p] = "threw"
     /\ SchemaOf(p) = Node(Str("coerce.nope"), Arr(<<Ref("Missing")>>), Undef)
     /\ ErrorIs(result[p], UnknownMethodText)
     /\ ObservedSteps(CallLog(p)) = << <<"lookup", "coerce.nope">> >>
     /\ Only(CallLog(p), "construct") = <<>>

\* the events behind ObservedSteps, in order
StepEvents(trace) ==
  SelectSeq(trace, LAMBDA e : e.ev \in {"lookup", "lazy", "hit", "compile",
                                        "construct", "tailLookup", "tailCall"})

RECURSIVE FirstFailingEntry(_, _, _, _)
\* the index of the first tail entry, from the i-th on, that the instance it meets does
\* not support or whose params carry a defect; 0 when there is none
FirstFailingEntry(doc, type, tail, i) ==
  IF i > Len(tail) THEN 0
  ELSE LET name == tail[i].v[1].v
       IN IF \/ name \notin ChainMethods(type)
             \/ Len(tail[i].v) >= 2 /\ Defective(doc, tail[i].v[2])
          THEN i
          ELSE FirstFailingEntry(doc, ChainType(type, name), tail, i + 1)

RECURSIVE TypeBefore(_, _, _)
\* the type of the instance that tail entry k meets, the base being of type `type`
TypeBefore(type, tail, k) ==
  IF k = 1 THEN type ELSE ChainType(TypeBefore(type, tail, k - 1), tail[k - 1].v[1].v)

\* the number of steps of the Node d up to the application of its (k-1)-th tail entry
\* (up to the base constructor for k = 1)
StepsBefore(d, k) ==
  Len(ExpectedSteps([d EXCEPT !.v = SelectSeq(d.v, LAMBDA kv : kv[1] # "tail")]))
  + Len(ExpectedStepsOfTail(SubSeq(Own(d, "tail").v, 1, k - 1), 1))

\* the walk that left `trace` went through the tail of the Node d of document doc entry by
\* entry: each operation looked up on the instance the previous step returned, before the
\* entry's params, and a failure at entry k after the applications 1..k-1 and before k
TailInOrder(doc, d, trace, threw, err) ==
  LET obs == ObservedSteps(trace)
      events == StepEvents(trace)
      tail == Own(d, "tail").v
      type == BaseType(Own(d, "method").v)
      k == FirstFailingEntry(doc, type, tail, 1)
  IN /\ IsPrefix(obs, ExpectedSteps(d))
     /\ \A j \in 1..Len(tail) :
           Len(obs) > StepsBefore(d, j) =>
              /\ obs[StepsBefore(d, j) + 1] = <<"tailLookup", tail[j].v[1].v>>
              /\ events[StepsBefore(d, j)].ev = IF j = 1 THEN "construct" ELSE "tailCall"
              /\ events[StepsBefore(d, j) + 1].on = events[StepsBefore(d, j)].returned
     /\ k = 0 => ~threw /\ obs = ExpectedSteps(d)
     /\ k > 0 =>
           /\ threw
           /\ Len(obs) > StepsBefore(d, k)
           /\ Len(obs) < StepsBefore(d, k + 1)
           /\ obs[StepsBefore(d, 1)] = <<"construct", Own(d, "method").v>>
           /\ \A j \in 1..(k - 1) : obs[StepsBefore(d, j + 1)] = <<"tailCall", tail[j].v[1].v>>
           /\ tail[k].v[1].v \notin ChainMethods(TypeBefore(type, tail, k)) =>
                 /\ Len(obs) = StepsBefore(d, k) + 1
                 /\ ErrorIs(err, UnknownTailText)

\* the Node d of document doc reaches its tail: supported method, sound params, a tail
\* that is a sequence
ReachesTail(doc, d) ==
  /\ Shape(d) = "node"
  /\ Own(d, "method").t = "string"
  /\ Own(d, "method").v \in BasePaths
  /\ ~Defective(doc, Own(d, "params"))
  /\ Own(d, "tail").t = "array"

\* C24: for each tail entry k the chained operation is looked up on the current instance
\* before the entry's params are resolved, and the params are resolved only after the
\* entries 1..k-1 have been applied.  A failure at entry k (unknown operation or failing
\* params) happens after the base constructor and the operations 1..k-1 were invoked; the
\* operations k..N are never invoked and the walk ends in an error, not an instance.
C24_TailEntriesInOrder ==
  /\ \A p \in Passes :
        (status[p] # "idle" /\ ReachesTail(root[p], SchemaOf(p))) =>
           TailInOrder(root[p], SchemaOf(p), CallLog(p), status[p] = "threw", result[p])
  /\ \A h \in 1..Len(lazySchemas) :
        ( lazySchemas[h].state \in {"forced", "failed"}
          /\ ReachesTail(root[lazySchemas[h].owner], BodyOf(h)) ) =>
           TailInOrder(root[lazySchemas[h].owner], BodyOf(h),
                       ForcingLog(lazySchemas[h].owner, h),
                       lazySchemas[h].state = "failed", lazySchemas[h].inner)

\* C24 witness: string with the tail [transform(compilable), transform(uncompilable),
\* optional] failed at entry 2: the constructor and the first transform were invoked, the
\* second transform was looked up, neither it nor optional was invoked
C24_Witness ==
  \E p \in Passes :
     /\ status[p] = "threw"
     /\ SchemaOf(p) = Node(Str("string"), Undef,
                           Arr(<<Item("transform", Arr(<<Func("(x) => x + 1")>>)),
                                 Item("transform", Arr(<<Func("val => (")>>)),
                                 Item("optional", Undef)>>))
     /\ ErrorIs(result[p], CompileText)
     /\ ObservedSteps(CallLog(p)) =
           << <<"lookup", "string">>, <<"construct", "string">>,
              <<"tailLookup", "transform">>, <<"compile", "(x) => x + 1">>,
              <<"tailCall", "transform">>, <<"tailLookup", "transform">> >>

\* the base-constructor invocations among a sequence of steps
ConstructsOf(steps) == SelectSeq(steps, LAMBDA s : s[1] = "construct")

\* C25: every Reference is a lazy breakpoint.  The trace of the fromZodJson call holds no
\* resolution of a definition body; a body of definitions[X] is resolved only inside the
\* forcing of a handle registered for X, after the call has returned, and a handle that
\* was not forced has had no body resolved.  The base constructors invoked by a call that
\* returned are exactly those of the Nodes that no Reference separates from `schema`.
C25_ReferencesAreLazyBreakpoints ==
  \A p \in Passes :
     status[p] # "idle" =>
        /\ Only(CallLog(p), "body") = <<>>
        /\ \A i \in EventsOf(p, "body") :
              /\ status[p] = "returned"
              /\ i > WalkEnd(p, 1)
              /\ log[p][i - 1].ev = "thunk"
              /\ log[p][i - 1].id = log[p][i].id
              /\ lazySchemas[log[p][i - 1].h].refId = log[p][i].id
              /\ lazySchemas[log[p][i - 1].h].state # "unforced"
        /\ \A h \in HandlesOf(p) :
              lazySchemas[h].state = "unforced" =>
                 \A i \in EventsOf(p, "thunk") : log[p][i].h # h
        /\ status[p] = "returned" =>
              ConstructsOf(ObservedOrder(CallLog(p))) = ConstructsOf(ExpectedOrder(SchemaOf(p)))

\* C25 witness: object({a: Reference A, b: Reference B}).partial() over the cycle
\* returned after invoking `object` once; later the handle of A was forced and only then
\* the body of A was resolved, while the handle of B is still unforced
C25_Witness ==
  \E p \in Passes :
     /\ status[p] = "returned"
     /\ DefsOf(root[p]) = DefsCycle
     /\ SchemaOf(p) = Node(Str("object"), Arr(<<Obj(<< <<"a", Ref("A")>>, <<"b", Ref("B")>> >>)>>),
                           Arr(<<Item("partial", Undef)>>))
     /\ ConstructsOf(ObservedOrder(CallLog(p))) = << <<"construct", "object">> >>
     /\ \E a, b \in HandlesOf(p), i \in EventsOf(p, "body") :
           /\ lazySchemas[a].refId = "A" /\ lazySchemas[a].state = "forced"
           /\ lazySchemas[b].refId = "B" /\ lazySchemas[b].state = "unforced"
           /\ log[p][i].id = "A" /\ i > WalkEnd(p, 1)

\* the walk that left `trace` on the Node d: absent params gave the constructor no
\* argument, a tail entry without params gave its operation no argument, and without a
\* tail the walk ended with the constructor and returned its instance
AbsentPartsAreEmpty(d, trace, returned, out) ==
  LET events == StepEvents(trace)
      n == Len(ExpectedSteps(Own(d, "params")))
      tail == Own(d, "tail")
  IN /\ Own(d, "params") = Undef =>
           /\ Len(events) >= 2 => events[2].ev = "construct" /\ events[2].args = <<>>
           /\ returned => BaseOf(out) = callBase(get(z, Own(d, "method").v), <<>>)
     /\ tail.t = "array" =>
           \A j \in 1..Len(tail.v) :
              Len(tail.v[j].v) < 2 =>
                 /\ Len(events) >= StepsBefore(d, j + 1) =>
                       /\ events[StepsBefore(d, j + 1)].ev = "tailCall"
                       /\ events[StepsBefore(d, j + 1)].name = tail.v[j].v[1].v
                       /\ events[StepsBefore(d, j + 1)].args = <<>>
                 /\ returned => ChainOf(out)[j] = <<tail.v[j].v[1].v, <<>> >>
     /\ tail = Undef =>
           /\ Len(events) <= n + 2
           /\ \A i \in (n + 2)..Len(events) : events[i].ev = "construct"
           /\ returned =>
                 /\ Len(events) = n + 2
                 /\ out = events[n + 2].returned
                 /\ out = callBase(get(z, Own(d, "method").v), events[n + 2].args)
                 /\ ChainOf(out) = <<>>

\* the description d is a Node whose method names a base constructor
SupportedNode(d) ==
  /\ Shape(d) = "node"
  /\ Own(d, "method").t = "string"
  /\ Own(d, "method").v \in BasePaths

\* C26: a Node with `params` absent has its base constructor invoked with an empty
\* argument list, a tail entry with params absent has its chained operation invoked with
\* an empty argument list, and a Node with `tail` absent resolves to exactly the instance
\* the base constructor returned, no chained operation being invoked.
C26_AbsentParamsAndTail ==
  /\ \A p \in Passes :
        (status[p] # "idle" /\ SupportedNode(SchemaOf(p))) =>
           AbsentPartsAreEmpty(SchemaOf(p), CallLog(p), status[p] = "returned", result[p])
  /\ \A h \in 1..Len(lazySchemas) :
        (lazySchemas[h].state \in {"forced", "failed"} /\ SupportedNode(BodyOf(h))) =>
           AbsentPartsAreEmpty(BodyOf(h), ForcingLog(lazySchemas[h].owner, h),
                               lazySchemas[h].state = "forced", lazySchemas[h].inner)

\* C26 witness: {method: "string", tail: [["optional"]]}, with neither params nor params of
\* the tail entry, resolved to string().optional(): both invocations had no argument
C26_Witness ==
  \E p \in Passes :
     /\ status[p] = "returned"
     /\ SchemaOf(p) = Node(Str("string"), Undef, Arr(<<Item("optional", Undef)>>))
     /\ result[p] = applyMethod(ZFn("optional"), callBase(ZFn("string"), <<>>), <<>>)
     /\ Only(CallLog(p), "construct")[1].args = <<>>
     /\ Only(CallLog(p), "tailCall")[1].args = <<>>

DefinitionsUndefinedText == "[json-zod] Definitions are undefined when resolving ref: \""

\* C27 (as stated): every id in the reference cache was a key of `definitions` when its
\* handle was registered, so forcing a registered handle never fails with the
\* definitions-undefined error nor with the force-time definition-not-found error, and a
\* document without `definitions` gets no handle at all.
C27_CachedIdsAreDefinitionKeys ==
  \A p \in Passes :
     /\ \A id \in DOMAIN definitionCache[p] :
           DefsOf(root[p]) # Undef /\ hasOwn(DefsOf(root[p]), id)
     /\ \A h \in HandlesOf(p) :
           /\ DefsOf(root[p]) # Undef /\ hasOwn(DefsOf(root[p]), lazySchemas[h].refId)
           /\ lazySchemas[h].state = "failed" =>
                 ~( \/ ErrorIs(lazySchemas[h].inner, DefinitionsUndefinedText)
                    \/ lazySchemas[h].inner = DefinitionNotFound(lazySchemas[h].refId) )
     /\ ~truthy(getProp(root[p], "definitions")) => HandlesOf(p) = {}

CachedUndefinedText == "[json-zod] Cached definition is unexpectedly undefined for ref: \""

\* C28: the cache never holds an empty entry.  In every reachable state each id of the
\* cache maps to the lazy handle that was registered for it, and neither a call nor a
\* forcing has ended with the cached-definition-is-undefined error.
C28_CacheHoldsHandlesOnly ==
  \A p \in Passes :
     /\ \A id \in DOMAIN definitionCache[p] :
           /\ definitionCache[p][id] # Undef
           /\ \E h \in HandlesOf(p) :
                 /\ lazySchemas[h].refId = id
                 /\ definitionCache[p][id] = lazyInst(h)
     /\ \A i \in EventsOf(p, "hit") : log[p][i].schema = definitionCache[p][log[p][i].id]
     /\ status[p] = "threw" => ~ErrorIs(result[p], CachedUndefinedText)
     /\ \A h \in HandlesOf(p) :
           lazySchemas[h].state = "failed" => ~ErrorIs(lazySchemas[h].inner, CachedUndefinedText)

\* C28 witness: in the cycle the handles of A, B and C were forced; the forcing of C met
\* the References A and C again and got their handles from the cache
C28_Witness ==
  \E p \in Passes :
     /\ DefsOf(root[p]) = DefsCycle
     /\ DOMAIN definitionCache[p] = {"A", "B", "C"}
     /\ \A h \in HandlesOf(p) : lazySchemas[h].state = "forced"
     /\ \E i, j \in EventsOf(p, "hit") : log[p][i].id = "A" /\ log[p][j].id = "C"

\* the ids that the trace of pass p mentions: registered, fetched or resolved
IdsTouched(p) ==
  {log[p][i].id : i \in {j \in 1..Len(log[p]) : log[p][j].ev \in {"lazy", "hit", "thunk", "body"}}}

\* the entries of `definitions` that no Reference reachable from `schema` names
UnreferencedIds(doc) ==
  IF DefsOf(doc) = Undef THEN {}
  ELSE {ownKeys(DefsOf(doc))[i] : i \in 1..Len(ownKeys(DefsOf(doc)))} \ ReachableRefIds(doc)

\* C29: definitions are only ever inspected through References.  An entry of
\* `definitions` that no Reference reachable from `schema` names gets no handle and is
\* never resolved, in the call or in any forcing; a failure of the call comes from a
\* defect in the part of `schema` in front of its References, and a failure of a forcing
\* from a defect in the body of a reachable id, never from an unreferenced entry.
C29_UnreferencedDefinitionsNeverResolved ==
  \A p \in Passes :
     /\ IdsTouched(p) \cap UnreferencedIds(root[p]) = {}
     /\ \A h \in HandlesOf(p) : lazySchemas[h].refId \in ReachableRefIds(root[p])
     /\ DOMAIN definitionCache[p] \subseteq ReachableRefIds(root[p])
     /\ status[p] = "threw" => Defective(root[p], SchemaOf(p))
     /\ status[p] = "returned" =>
           ConstructsOf(ObservedOrder(CallLog(p))) = ConstructsOf(ExpectedOrder(SchemaOf(p)))
     /\ \A h \in HandlesOf(p) :
           /\ lazySchemas[h].state = "failed" => Defective(root[p], BodyOf(h))
           /\ (lazySchemas[h].state = "forced" /\ BodyOf(h) # Undef) =>
                 ConstructsOf(ObservedOrder(ForcingLog(p, h))) = ConstructsOf(ExpectedOrder(BodyOf(h)))

\* C29 witness: with definitions {A: string, Unused: unknownMethod} and `schema` the
\* Reference A, the call returned and the handle of A was forced without failure; Unused
\* was never touched
C29_Witness ==
  \E p \in Passes :
     /\ DefsOf(root[p]) = DefsUnused
     /\ SchemaOf(p) = Ref("A")
     /\ status[p] = "returned"
     /\ UnreferencedIds(root[p]) = {"Unused"}
     /\ \A h \in HandlesOf(p) : lazySchemas[h].state = "forced"
     /\ IdsTouched(p) = {"A"}
     /\ Defective(root[p], Own(DefsOf(root[p]), "Unused"))

\* the Node d without its `tail`
WithoutTail(d) == [d EXCEPT !.v = SelectSeq(d.v, LAMBDA kv : kv[1] # "tail")]

\* the walk that left `trace` treated the description d of document doc as the dispatch
\* rule's fallbacks say: an object without a recognised marker as a plain mapping, a Node
\* whose tail is not a sequence as the Node without tail
FallbackTaken(doc, d, trace, returned, out) ==
  /\ Shape(d) = "mapping" =>
        /\ ~Defective(doc, d) => returned
        /\ returned =>
              /\ out.t = "object"
              /\ ResolutionOf(d, out, FALSE)
        /\ ObservedSteps(trace) # <<>> =>
              \E i \in 1..Len(d.v) : ExpectedSteps(d.v[i][2]) # <<>>
        /\ IsPrefix(ObservedSteps(trace), ExpectedSteps(d))
  /\ (SupportedNode(d) /\ hasOwn(d, "tail") /\ Own(d, "tail").t # "array") =>
        /\ ~Defective(doc, Own(d, "params")) => returned
        /\ IsPrefix(ObservedSteps(trace), ExpectedSteps(WithoutTail(d)))
        /\ Only(trace, "tailLookup") = <<>> /\ Only(trace, "tailCall") = <<>>
        /\ returned =>
              /\ ObservedSteps(trace) = ExpectedSteps(WithoutTail(d))
              /\ ResolutionOf(WithoutTail(d), out, FALSE)
              /\ ChainOf(out) = <<>>

====
